---- MODULE Spec2Model ----
(***************************************************************************)
(* Model of the knowledge-expander plugin: the KeywordExtractor            *)
(* (keyword-extractor.ts) and the AIService (ai-service.ts).               *)
(*                                                                         *)
(* Strings are sequences of characters.  A character is an atomic string: *)
(* an ASCII character stands for itself, "\n" is the line feed, "BQ" is    *)
(* the backquote U+0060, "U+321C" is the parenthesized ideograph           *)
(* "(ju)" used as company marker, and "ko:<romanization>" is one Hangul    *)
(* syllable of the range U+AC00..U+D7A3 (for instance "ko:e" is U+C5D0,    *)
(* "ko:seo" is U+C11C, so <<"ko:e","ko:seo">> is the stop word "eseo").    *)
(* "P:<name>" is one fixed paragraph of a prompt template or of the       *)
(* default settings, written as a single character.                        *)
(***************************************************************************)
EXTENDS Integers, Sequences, FiniteSets, TLC

VARIABLES
    kwIn,       \* arguments of the extractKeywords call: [text, title], and the extractor's maxTags
    kwOut,      \* value returned by extractKeywords
    kwPc,       \* "idle" (not part of the run), "call" (about to run), "done" (returned)
    settings,   \* AIService.settings, the object the plugin and its settings tab share
    pc,         \* the AIService call: "idle", "awaiting" (requestUrl pending), "returned", "thrown"
    call,       \* the pending call: [op, route, model], what the synchronous part fixed
    requests,   \* the requestUrl invocations of the current call, in order
    result,     \* the AIResponse returned, or the error thrown, by the current call
    upstream,   \* how the awaited requestUrl settled: the response.json or the error raised
    raw,        \* argument of the parseResponse call
    parsed,     \* value returned by parseResponse
    fnIn,       \* argument of the call of one private method (stripMarkdownCodeBlock, ...)
    fnOut,      \* value that call returned
    fnPc,       \* that call: "idle" (not part of the run), "call" (about to run), "done"
    extractor,  \* the fields of a KeywordExtractor that serves several calls
    kwCalls,    \* number of extractKeywords calls it has served
    kwLast,     \* arguments and returned value of its latest call
    kwRef,      \* an earlier call, remembered with the fields the extractor had before it
    file,       \* the source note in the vault: whether its path still resolves, its content
    notes,      \* basenames of the notes that vault.create has created
    ops         \* the expansions started from the editor: position, captured context, ...

kwVars == <<kwIn, kwOut, kwPc>>

svcVars == <<settings, pc, call, requests, result, upstream>>

parseVars == <<raw, parsed>>

fnVars == <<fnIn, fnOut, fnPc>>

callsVars == <<extractor, kwCalls, kwLast, kwRef>>

editorVars == <<file, notes, ops>>

\* the variables of the other components
notKwVars == <<svcVars, parseVars, fnVars, callsVars, editorVars>>
notSvcVars == <<kwVars, parseVars, fnVars, callsVars, editorVars>>
notParseVars == <<kwVars, svcVars, fnVars, callsVars, editorVars>>
notFnVars == <<kwVars, svcVars, parseVars, callsVars, editorVars>>
notCallsVars == <<kwVars, svcVars, parseVars, fnVars, editorVars>>
notEditorVars == <<kwVars, svcVars, parseVars, fnVars, callsVars>>

vars == <<kwIn, kwOut, kwPc, settings, pc, call, requests, result, upstream,
          raw, parsed, fnIn, fnOut, fnPc, extractor, kwCalls, kwLast, kwRef,
          file, notes, ops>>

-----------------------------------------------------------------------------
(* Characters and character classes of the regular expressions *)

Upper == {"A","B","C","D","E","F","G","H","I","J","K","L","M",
          "N","O","P","Q","R","S","T","U","V","W","X","Y","Z"}

Lower == {"a","b","c","d","e","f","g","h","i","j","k","l","m",
          "n","o","p","q","r","s","t","u","v","w","x","y","z"}

Digit == {"0","1","2","3","4","5","6","7","8","9"}

\* [a-zA-Z]
Letter == Upper \cup Lower

\* \w of a non-unicode regular expression: [A-Za-z0-9_]
WordChar == Letter \cup Digit \cup {"_"}

\* \s, and the characters String.prototype.trim removes
WhiteSpace == {" ", "\n", "\t", "\r"}

\* the syllables of [U+AC00-U+D7A3] that the model's texts and the program's literals use
Hangul == {"ko:i", "ko:geu", "ko:jeo", "ko:geot", "ko:su", "ko:deung", "ko:mit",
           "ko:ui", "ko:ga", "ko:eul", "ko:reul", "ko:e", "ko:seo", "ko:eu",
           "ko:ro", "ko:wa", "ko:gwa", "ko:do", "ko:man", "ko:ha", "ko:da",
           "ko:iss", "ko:eops", "ko:doe", "ko:a", "ko:ni", "ko:go", "ko:han",
           "ko:jo", "ko:eok", "ko:won", "ko:nyeon", "ko:wol", "ko:il",
           "ko:myeong", "ko:geon", "ko:hoe", "ko:gae",
           "ko:ju", "ko:sik", "ko:sa", "ko:je", "ko:mok", "ko:na",
           "ko:eun", "ko:te", "ko:seu", "ko:teu", "ko:ip", "ko:cham", "ko:haess"}

\* [U+AC00-U+D7A3 A-Za-z] of companyPattern
NameChar == Hangul \cup Letter

UpperSeq == <<"A","B","C","D","E","F","G","H","I","J","K","L","M",
              "N","O","P","Q","R","S","T","U","V","W","X","Y","Z">>

LowerSeq == <<"a","b","c","d","e","f","g","h","i","j","k","l","m",
              "n","o","p","q","r","s","t","u","v","w","x","y","z">>

\* String.prototype.toLowerCase, one character
lowerChar(c) ==
    IF c \in Upper
    THEN LowerSeq[CHOOSE k \in 1..26 : UpperSeq[k] = c]
    ELSE c

\* String.prototype.toLowerCase
toLowerCase(s) == [k \in 1..Len(s) |-> lowerChar(s[k])]

Max(S) == CHOOSE x \in S : \A y \in S : y <= x

Min(S) == CHOOSE x \in S : \A y \in S : x <= y

\* String.prototype.trim
trim(s) ==
    LET keep == {k \in 1..Len(s) : s[k] \notin WhiteSpace}
    IN  IF keep = {} THEN <<>> ELSE SubSeq(s, Min(keep), Max(keep))

\* concatenation of a sequence of strings
RECURSIVE Concat(_)
Concat(ss) == IF ss = <<>> THEN <<>> ELSE Head(ss) \o Concat(Tail(ss))

-----------------------------------------------------------------------------
(* Regular-expression matching: a pattern is given by the end of its      *)
(* match at each start position (0: no match starts there).  RunEnd is a  *)
(* greedy C+ / C* from position i; WordBoundary is \b.                     *)

\* last position of the longest run of characters of class C starting at i (i-1: empty run)
RunEnd(s, i, C) ==
    LET js == {j \in i..Len(s) : \A k \in i..j : s[k] \in C}
    IN  IF js = {} THEN i - 1 ELSE Max(js)

IsWordAt(s, p) == p >= 1 /\ p <= Len(s) /\ s[p] \in WordChar

\* \b between s[p-1] and s[p]
WordBoundary(s, p) == IsWordAt(s, p - 1) # IsWordAt(s, p)

At(s, p, c) == p >= 1 /\ p <= Len(s) /\ s[p] = c

In(s, p, C) == p >= 1 /\ p <= Len(s) /\ s[p] \in C

\* String.prototype.match with a /g pattern: the successive non-overlapping matches, leftmost first
RECURSIVE ScanFrom(_, _, _)
ScanFrom(s, ends, i) ==
    IF i > Len(s) THEN <<>>
    ELSE IF ends[i] < i THEN ScanFrom(s, ends, i + 1)
    ELSE <<SubSeq(s, i, ends[i])>> \o ScanFrom(s, ends, ends[i] + 1)

-----------------------------------------------------------------------------
(* KeywordExtractor *)

\* this.stopwordsKo
stopwordsKo ==
    { <<"ko:i">>, <<"ko:geu">>, <<"ko:jeo">>, <<"ko:geot">>, <<"ko:su">>, <<"ko:deung">>,
      <<"ko:mit">>, <<"ko:ui">>, <<"ko:ga">>, <<"ko:eul">>, <<"ko:reul">>,
      <<"ko:e">>, <<"ko:e","ko:seo">>, <<"ko:eu","ko:ro">>, <<"ko:ro">>, <<"ko:wa">>,
      <<"ko:gwa">>, <<"ko:do">>, <<"ko:man">>, <<"ko:ha","ko:da">>,
      <<"ko:iss","ko:da">>, <<"ko:eops","ko:da">>, <<"ko:doe","ko:da">>,
      <<"ko:i","ko:da">>, <<"ko:a","ko:ni","ko:da">>, <<"ko:ha","ko:go">>,
      <<"ko:han","ko:da">> }

\* this.stopwordsEn
stopwordsEn ==
    { <<"t","h","e">>, <<"a">>, <<"a","n">>, <<"a","n","d">>, <<"o","r">>, <<"b","u","t">>,
      <<"i","n">>, <<"o","n">>, <<"a","t">>, <<"t","o">>, <<"f","o","r">>, <<"o","f">>,
      <<"w","i","t","h">>, <<"b","y">>, <<"f","r","o","m">>, <<"i","s">>, <<"w","a","s">>,
      <<"a","r","e">>, <<"w","e","r","e">>, <<"b","e">>, <<"b","e","e","n">>,
      <<"b","e","i","n","g">>, <<"h","a","v","e">>, <<"h","a","s">>, <<"h","a","d">> }

\* koPattern = /[U+AC00-U+D7A3]{2,}/g : end of the match starting at i
koPatternEnd(s, i) ==
    LET e == RunEnd(s, i, Hangul)
    IN  IF e >= i + 1 THEN e ELSE 0

\* enPattern = /\b[A-Z][a-zA-Z]{2,}\b|\b[A-Z]{2,}\b/g : end of the match starting at i.
\* A greedy quantifier followed by \b ends at the last position where \b holds.
enPatternEnd(s, i) ==
    LET alt1 == {j \in (i + 2)..Len(s) :
                    /\ \A k \in (i + 1)..j : s[k] \in Letter
                    /\ WordBoundary(s, j + 1)}
        alt2 == {j \in (i + 1)..Len(s) :
                    /\ \A k \in i..j : s[k] \in Upper
                    /\ WordBoundary(s, j + 1)}
    IN  IF ~(WordBoundary(s, i) /\ In(s, i, Upper)) THEN 0
        ELSE IF alt1 # {} THEN Max(alt1)
        ELSE IF alt2 # {} THEN Max(alt2)
        ELSE 0

koKeep(w) == w \notin stopwordsKo

enKeep(w) == toLowerCase(w) \notin stopwordsEn

extractGeneralKeywords(text) ==
    LET koMatches == ScanFrom(text, [i \in 1..Len(text) |-> koPatternEnd(text, i)], 1)
        koFiltered == SelectSeq(koMatches, koKeep)
        enMatches == ScanFrom(text, [i \in 1..Len(text) |-> enPatternEnd(text, i)], 1)
        enFiltered == SelectSeq(enMatches, enKeep)
    IN  koFiltered \o enFiltered

\* the literal "jusikhoesa" (U+C8FC U+C2DD U+D68C U+C0AC) of companyPattern
CompanyWord == <<"ko:ju", "ko:sik", "ko:hoe", "ko:sa">>

\* the literal U+321C of companyPattern
CompanyMark == "U+321C"

\* the lengths of the optional marker (?:jusikhoesa|U+321C)? at i, in the order the
\* regular expression tries them: the word, the mark, then no marker
MarkerLengths(s, i) ==
    (IF i + 3 <= Len(s) /\ SubSeq(s, i, i + 3) = CompanyWord THEN <<4>> ELSE <<>>)
    \o (IF At(s, i, CompanyMark) THEN <<1>> ELSE <<>>)
    \o <<0>>

\* \s*([NameChar]+(?:\s+[NameChar]+)?) from position p: [to, from] of group 1, to = 0 when it fails
CompanyName(s, p) ==
    LET q  == RunEnd(s, p, WhiteSpace) + 1
        e1 == RunEnd(s, q, NameChar)
        w  == RunEnd(s, e1 + 1, WhiteSpace)
        e2 == RunEnd(s, w + 1, NameChar)
    IN  IF ~In(s, q, NameChar) THEN [from |-> 0, to |-> 0]
        ELSE IF w >= e1 + 1 /\ e2 >= w + 1 THEN [from |-> q, to |-> e2]
        ELSE [from |-> q, to |-> e1]

\* companyPattern at start position i: the first marker alternative whose rest matches
companyPatternAt(s, i) ==
    LET ms == MarkerLengths(s, i)
        ok == {k \in 1..Len(ms) : CompanyName(s, i + ms[k]).to > 0}
    IN  IF ok = {} THEN [from |-> 0, to |-> 0]
        ELSE CompanyName(s, i + ms[Min(ok)])

\* the while loop over companyPattern.exec(text), from lastIndex i
RECURSIVE companyLoop(_, _)
companyLoop(s, i) ==
    IF i > Len(s) THEN <<>>
    ELSE LET m == companyPatternAt(s, i)
             company == trim(SubSeq(s, m.from, m.to))
         IN  IF m.to = 0 THEN companyLoop(s, i + 1)
             ELSE (IF Len(company) >= 2 THEN <<company>> ELSE <<>>)
                  \o companyLoop(s, m.to + 1)

\* [A-Z][a-z]+ at i: its end, 0 when it does not match
CapWordEnd(s, i) ==
    IF In(s, i, Upper) /\ In(s, i + 1, Lower) THEN RunEnd(s, i + 1, Lower) ELSE 0

\* the ends of 1, 2, ... repetitions of (?:\s+[A-Z][a-z]+) after position e
RECURSIVE CapChain(_, _)
CapChain(s, e) ==
    LET w  == RunEnd(s, e + 1, WhiteSpace)
        e2 == IF w >= e + 1 THEN CapWordEnd(s, w + 1) ELSE 0
    IN  IF e2 = 0 THEN <<>> ELSE <<e2>> \o CapChain(s, e2)

\* capitalizedPattern = /\b[A-Z][a-z]+(?:\s+[A-Z][a-z]+)+\b/g : end of the match starting at i
capitalizedPatternEnd(s, i) ==
    LET e1 == CapWordEnd(s, i)
        chain == IF e1 = 0 THEN <<>> ELSE CapChain(s, e1)
        ok == {k \in 1..Len(chain) : WordBoundary(s, chain[k] + 1)}
    IN  IF ~WordBoundary(s, i) \/ ok = {} THEN 0 ELSE chain[Max(ok)]

\* acronymPattern = /\b[A-Z]{2,}\b/g : end of the match starting at i
acronymPatternEnd(s, i) ==
    LET ends == {j \in (i + 1)..Len(s) :
                    /\ \A k \in i..j : s[k] \in Upper
                    /\ WordBoundary(s, j + 1)}
    IN  IF WordBoundary(s, i) /\ ends # {} THEN Max(ends) ELSE 0

nonEmpty(w) == Len(w) > 0

\* Array.prototype.map(pn => pn.trim())
mapTrim(ws) == [k \in 1..Len(ws) |-> trim(ws[k])]

extractProperNouns(text) ==
    LET companies == companyLoop(text, 1)
        capitalizedMatches ==
            ScanFrom(text, [i \in 1..Len(text) |-> capitalizedPatternEnd(text, i)], 1)
        acronymMatches == ScanFrom(text, [i \in 1..Len(text) |-> acronymPatternEnd(text, i)], 1)
    IN  SelectSeq(mapTrim(companies \o capitalizedMatches \o acronymMatches), nonEmpty)

MoneyUnit == {"ko:jo", "ko:eok", "ko:man"}

CountUnit == {"ko:myeong", "ko:geon", "ko:hoe", "ko:gae"}

\* moneyPattern = /\d+(?:jo|eok|man)?won/g : end of the match starting at i
moneyPatternEnd(s, i) ==
    LET d == RunEnd(s, i, Digit)
    IN  IF d < i THEN 0
        ELSE IF In(s, d + 1, MoneyUnit) /\ At(s, d + 2, "ko:won") THEN d + 2
        ELSE IF At(s, d + 1, "ko:won") THEN d + 1
        ELSE 0

\* \d{1,2} then the character c, from position p: the end, 0 when it does not match
UpTo2DigitsThen(s, p, c) ==
    IF In(s, p, Digit) /\ In(s, p + 1, Digit) /\ At(s, p + 2, c) THEN p + 2
    ELSE IF In(s, p, Digit) /\ At(s, p + 1, c) THEN p + 1
    ELSE 0

\* a date pattern without its second alternative: /\d{4}nyeon/g
datePatternEnd_yearOnly(s, i) ==
    IF (\A k \in i..(i + 3) : In(s, k, Digit)) /\ At(s, i + 4, "ko:nyeon") THEN i + 4
    ELSE 0

\* datePattern = /\d{4}nyeon|\d{1,2}wol\d{1,2}il/g : end of the match starting at i
datePatternEnd(s, i) ==
    LET m == UpTo2DigitsThen(s, i, "ko:wol")
    IN  IF (\A k \in i..(i + 3) : In(s, k, Digit)) /\ At(s, i + 4, "ko:nyeon") THEN i + 4
        ELSE IF m = 0 THEN 0
        ELSE UpTo2DigitsThen(s, m + 1, "ko:il")

\* the ends of 0, 1, ... repetitions of (?:,\d{3}) after position d
RECURSIVE GroupEnds(_, _)
GroupEnds(s, d) ==
    <<d>> \o (IF At(s, d + 1, ",") /\ (\A k \in (d + 2)..(d + 4) : In(s, k, Digit))
              THEN GroupEnds(s, d + 4) ELSE <<>>)

\* largeNumPattern = /\d+(?:,\d{3})*(?:myeong|geon|hoe|gae)/g : end of the match starting at i
largeNumPatternEnd(s, i) ==
    LET d == RunEnd(s, i, Digit)
        gs == IF d < i THEN <<>> ELSE GroupEnds(s, d)
        ok == {k \in 1..Len(gs) : In(s, gs[k] + 1, CountUnit)}
    IN  IF ok = {} THEN 0 ELSE gs[Max(ok)] + 1

extractNumbers(text) ==
    LET moneyMatches == ScanFrom(text, [i \in 1..Len(text) |-> moneyPatternEnd(text, i)], 1)
        dateMatches == ScanFrom(text, [i \in 1..Len(text) |-> datePatternEnd(text, i)], 1)
        largeNumMatches ==
            ScanFrom(text, [i \in 1..Len(text) |-> largeNumPatternEnd(text, i)], 1)
    IN  moneyMatches \o dateMatches \o largeNumMatches


\* the letters-only property names every object inherits from Object.prototype:
\* freq = {} reads them through the prototype chain in freq[keyword]
ObjectPrototypeNames ==
    { <<"c","o","n","s","t","r","u","c","t","o","r">>,
      <<"t","o","S","t","r","i","n","g">>,
      <<"v","a","l","u","e","O","f">>,
      <<"t","o","L","o","c","a","l","e","S","t","r","i","n","g">>,
      <<"h","a","s","O","w","n","P","r","o","p","e","r","t","y">>,
      <<"i","s","P","r","o","t","o","t","y","p","e","O","f">>,
      <<"p","r","o","p","e","r","t","y","I","s","E","n","u","m","e","r","a","b","l","e">> }

\* index of the own property `key` in freq, 0 when freq has no such own property
OwnIndex(freq, key) ==
    LET ks == {k \in 1..Len(freq) : freq[k].key = key}
    IN  IF ks = {} THEN 0 ELSE Min(ks)

\* freq[keyword] = (freq[keyword] || 0) + 1.  An entry is [key, n, num]: num says the value
\* is the number n; otherwise the value is a string: the inherited function of
\* Object.prototype is truthy, and function + 1 is a string, with a "1" appended at each
\* later occurrence (n counts the occurrences all the same).
countOne(freq, keyword) ==
    LET k == OwnIndex(freq, keyword)
    IN  IF k > 0
        THEN [freq EXCEPT ![k].n = @ + 1]
        ELSE Append(freq, [key |-> keyword, n |-> 1,
                           num |-> keyword \notin ObjectPrototypeNames])

\* the for loop of countFrequency; the result lists the own properties in insertion order,
\* which is the order of Object.entries (no key is an array index: every key holds a letter,
\* a Hangul syllable or a unit)
RECURSIVE countLoop(_, _)
countLoop(freq, keywords) ==
    IF keywords = <<>> THEN freq
    ELSE countLoop(countOne(freq, Head(keywords)), Tail(keywords))

countFrequency(keywords) == countLoop(<<>>, keywords)

\* (a, b) => b[1] - a[1], as Array.prototype.sort reads it: NaN (a string operand) counts as +0
compareFn(a, b) == IF a.num /\ b.num THEN b.n - a.n ELSE 0

Reverse(arr) == [k \in 1..Len(arr) |-> arr[Len(arr) + 1 - k]]

\* Array.prototype.sort for fewer than 64 elements (V8): the length of the initial run ...
RECURSIVE runLength(_, _, _)
runLength(arr, descending, idx) ==
    IF idx > Len(arr) THEN idx - 1
    ELSE LET order == compareFn(arr[idx], arr[idx - 1])
         IN  IF (descending /\ order >= 0) \/ (~descending /\ order < 0)
             THEN idx - 1
             ELSE runLength(arr, descending, idx + 1)

\* ... the insertion point of pivot in the sorted arr[1..right-1], by binary search ...
RECURSIVE insertionPoint(_, _, _, _)
insertionPoint(arr, pivot, left, right) ==
    IF left >= right THEN left
    ELSE LET mid == left + ((right - left) \div 2)
         IN  IF compareFn(pivot, arr[mid]) < 0
             THEN insertionPoint(arr, pivot, left, mid)
             ELSE insertionPoint(arr, pivot, mid + 1, right)

\* ... and the binary insertion of arr[start], arr[start+1], ... into the run before them
RECURSIVE binaryInsertionSort(_, _)
binaryInsertionSort(arr, start) ==
    IF start > Len(arr) THEN arr
    ELSE LET at == insertionPoint(arr, arr[start], 1, start)
             moved == SubSeq(arr, 1, at - 1) \o <<arr[start]>> \o SubSeq(arr, at, start - 1)
                          \o SubSeq(arr, start + 1, Len(arr))
         IN  binaryInsertionSort(moved, start + 1)

sort(arr) ==
    IF Len(arr) < 2 THEN arr
    ELSE LET descending == compareFn(arr[2], arr[1]) < 0
             run == runLength(arr, descending, 3)
             made == IF descending
                     THEN Reverse(SubSeq(arr, 1, run)) \o SubSeq(arr, run + 1, Len(arr))
                     ELSE arr
         IN  binaryInsertionSort(made, run + 1)

\* Array.prototype.slice(0, end)
slice0(arr, end) ==
    LET n == Len(arr)
        to == IF end < 0 THEN (IF n + end < 0 THEN 0 ELSE n + end)
              ELSE (IF end > n THEN n ELSE end)
    IN  SubSeq(arr, 1, to)

\* getTopKeywords without its .slice(0, topN)
getTopKeywords_noSlice(freq, topN) ==
    LET sorted == sort(freq)
    IN  [k \in 1..Len(sorted) |-> sorted[k].key]

getTopKeywords(freq, topN) ==
    LET sorted == sort(freq)
    IN  slice0([k \in 1..Len(sorted) |-> sorted[k].key], topN)

\* keywordsOf pushing the title keywords once instead of three times
keywordsOf_titleOnce(text, title) ==
    LET titleKeywords == IF title # <<>> THEN extractGeneralKeywords(title) ELSE <<>>
        properNouns == extractProperNouns(text)
    IN  titleKeywords \o properNouns \o properNouns
            \o extractGeneralKeywords(text) \o extractNumbers(text)

\* the working array `keywords` of extractKeywords before counting
keywordsOf(text, title) ==
    LET titleKeywords == IF title # <<>> THEN extractGeneralKeywords(title) ELSE <<>>
        properNouns == extractProperNouns(text)
        bodyKeywords == extractGeneralKeywords(text)
        numbers == extractNumbers(text)
    IN  titleKeywords \o titleKeywords \o titleKeywords
            \o properNouns \o properNouns \o bodyKeywords \o numbers

\* an extractor that falls back on the whole text when it found no keyword
extractKeywords_wholeTextFallback(text, title, maxTags) ==
    LET topKeywords == getTopKeywords(countFrequency(keywordsOf(text, title)), maxTags)
    IN  IF topKeywords = <<>> THEN <<trim(text)>> ELSE topKeywords

extractKeywords(text, title, maxTags) ==
    getTopKeywords(countFrequency(keywordsOf(text, title)), maxTags)

\* an extractor whose call lowers maxTags to the number of tags it returned
extractKeywordsOn_maxTagsShrinks(this, text, title) ==
    LET topKeywords == extractKeywords(text, title, this.maxTags)
    IN  [returned |-> topKeywords,
         extractor |-> [this EXCEPT !.maxTags = Len(topKeywords)]]

\* extractKeywords as a method of the extractor: the value returned and the fields after
\* the call; the method and its helpers read maxTags and the stop-word sets and assign
\* no field, their arrays, patterns and counters are locals of the call
extractKeywordsOn(this, text, title) ==
    [returned |-> extractKeywords(text, title, this.maxTags),
     extractor |-> this]

-----------------------------------------------------------------------------
(* AIService: post-processing of the reply text *)

\* String.prototype.startsWith
startsWith(s, p) == Len(s) >= Len(p) /\ SubSeq(s, 1, Len(p)) = p

\* String.prototype.endsWith
endsWith(s, p) == Len(s) >= Len(p) /\ SubSeq(s, Len(s) - Len(p) + 1, Len(s)) = p

\* s.slice(n), 0 <= n <= s.length
sliceFrom(s, n) == SubSeq(s, n + 1, Len(s))

\* s.slice(0, -n), 0 < n <= s.length
sliceOffEnd(s, n) == SubSeq(s, 1, Len(s) - n)

\* the literals '```', '```md' and '```markdown'
Fence == <<"BQ","BQ","BQ">>
FenceMd == Fence \o <<"m","d">>
FenceMarkdown == Fence \o <<"m","a","r","k","d","o","w","n">>

stripMarkdownCodeBlock_singleBackquote(content) ==
    LET result0 == trim(content)
        result1 == IF startsWith(result0, <<"BQ">>)
                       THEN sliceFrom(result0, 1)
                   ELSE result0
        result2 == IF endsWith(result1, <<"BQ">>) THEN sliceOffEnd(result1, 1) ELSE result1
    IN  trim(result2)

\* a strip that does not trim what is left between the fences
stripMarkdownCodeBlock_noFinalTrim(content) ==
    LET result0 == trim(content)
        result1 == IF startsWith(result0, FenceMarkdown)
                       THEN sliceFrom(result0, Len(FenceMarkdown))
                   ELSE IF startsWith(result0, FenceMd)
                       THEN sliceFrom(result0, Len(FenceMd))
                   ELSE IF startsWith(result0, Fence)
                       THEN sliceFrom(result0, 3)
                   ELSE result0
    IN  IF endsWith(result1, Fence) THEN sliceOffEnd(result1, 3) ELSE result1

stripMarkdownCodeBlock(content) ==
    LET result0 == trim(content)
        result1 == IF startsWith(result0, FenceMarkdown)
                       THEN sliceFrom(result0, Len(FenceMarkdown))
                   ELSE IF startsWith(result0, FenceMd)
                       THEN sliceFrom(result0, Len(FenceMd))
                   ELSE IF startsWith(result0, Fence)
                       THEN sliceFrom(result0, 3)
                   ELSE result0
        result2 == IF endsWith(result1, Fence) THEN sliceOffEnd(result1, 3) ELSE result1
    IN  trim(result2)

\* position of the k-th line feed of s
lineFeedAt(s, k) ==
    CHOOSE i \in 1..Len(s) :
        /\ s[i] = "\n"
        /\ Cardinality({j \in 1..(i - 1) : s[j] = "\n"}) = k - 1

\* s.split('\n'): the lines of s, at least one
split(s) ==
    LET n == Cardinality({i \in 1..Len(s) : s[i] = "\n"}) + 1
        from(k) == IF k = 1 THEN 1 ELSE lineFeedAt(s, k - 1) + 1
        to(k) == IF k = n THEN Len(s) ELSE lineFeedAt(s, k) - 1
    IN  [k \in 1..n |-> SubSeq(s, from(k), to(k))]

\* lines.join('\n')
join(lines) ==
    IF lines = <<>> THEN <<>>
    ELSE Concat([k \in 1..(2 * Len(lines) - 1) |->
                    IF k % 2 = 1 THEN lines[(k + 1) \div 2] ELSE <<"\n">>])

\* the literals of parseResponse: the title marker, without and with a blank before the colon
TitleMarker == <<"ko:je","ko:mok",":">>
TitleMarkerSpaced == <<"ko:je","ko:mok"," ",":">>

\* end of the match of /^ je mok \s*:\s*/ in line (0: no match)
titlePatternEnd(line) ==
    IF ~(At(line, 1, "ko:je") /\ At(line, 2, "ko:mok")) THEN 0
    ELSE LET p == RunEnd(line, 3, WhiteSpace)
         IN  IF At(line, p + 1, ":") THEN RunEnd(line, p + 2, WhiteSpace) ELSE 0

\* line.replace(/^ je mok \s*:\s*/, '')
removeTitlePattern(line) == sliceFrom(line, titlePatternEnd(line))

\* parseResponse keeping the title line in the content
parseResponse_titleLineKept(rawContent) ==
    LET lines == split(trim(rawContent))
        marked == startsWith(lines[1], TitleMarker) \/ startsWith(lines[1], TitleMarkerSpaced)
        title == IF marked THEN trim(removeTitlePattern(lines[1])) ELSE <<>>
    IN  [title |-> title, content |-> trim(join(lines))]

\* parseResponse; contentStartIndex counts from 0 as in the source
parseResponse(rawContent) ==
    LET lines == split(trim(rawContent))
        marked == startsWith(lines[1], TitleMarker) \/ startsWith(lines[1], TitleMarkerSpaced)
        title == IF marked THEN trim(removeTitlePattern(lines[1])) ELSE <<>>
        stops == {i \in 1..Len(lines) : i = Len(lines) \/ trim(lines[i + 1]) # <<>>}
        contentStartIndex == IF marked THEN Min(stops) ELSE 0
        content == trim(join(SubSeq(lines, contentStartIndex + 1, Len(lines))))
    IN  [title |-> title, content |-> content]

-----------------------------------------------------------------------------
(* AIService: settings, pricing and the choice of the endpoint *)

\* type AIProvider
AIProviders == {"openai", "gemini", "claude"}

\* the text of DEFAULT_SETTINGS.systemPrompt: the request to explain the background, and
\* the sentences on length and headings that the web-search template repeats
DefaultSystemPrompt == <<"P:explainBackground", "P:lengthAndHeadings">>

\* DEFAULT_SETTINGS, the fields the service reads
DEFAULT_SETTINGS ==
    [aiProvider |-> "openai",
     openaiApiKey |-> "",
     openaiModel |-> "gpt-4o",
     openaiWebSearchModel |-> "gpt-4o-mini",
     geminiApiKey |-> "",
     geminiModel |-> "gemini-1.5-flash",
     claudeApiKey |-> "",
     claudeModel |-> "claude-3-5-sonnet-20241022",
     systemPrompt |-> DefaultSystemPrompt]

\* PRICING_PER_MILLION_TOKENS. A price is written in thousandths of a dollar per million
\* tokens (2.50 is 2500, 0.075 is 75), so that tokens * price is a cost in billionths of a
\* dollar and the arithmetic of calculateCost is exact.
PRICING_PER_MILLION_TOKENS ==
    [openai |->
        ("gpt-5.2" :> [input |-> 1750, output |-> 14000] @@
         "gpt-5.2-pro" :> [input |-> 21000, output |-> 168000] @@
         "gpt-5.1" :> [input |-> 1250, output |-> 10000] @@
         "gpt-5" :> [input |-> 1250, output |-> 10000] @@
         "gpt-5-mini" :> [input |-> 250, output |-> 2000] @@
         "gpt-5-nano" :> [input |-> 50, output |-> 400] @@
         "gpt-5-pro" :> [input |-> 15000, output |-> 120000] @@
         "gpt-4.1" :> [input |-> 2000, output |-> 8000] @@
         "gpt-4.1-mini" :> [input |-> 400, output |-> 1600] @@
         "gpt-4.1-nano" :> [input |-> 100, output |-> 400] @@
         "gpt-4o" :> [input |-> 2500, output |-> 10000] @@
         "gpt-4o-mini" :> [input |-> 150, output |-> 600] @@
         "o3" :> [input |-> 2000, output |-> 8000] @@
         "o3-pro" :> [input |-> 20000, output |-> 80000] @@
         "o4-mini" :> [input |-> 1100, output |-> 4400] @@
         "o1" :> [input |-> 15000, output |-> 60000] @@
         "o1-pro" :> [input |-> 150000, output |-> 600000] @@
         "o1-mini" :> [input |-> 1100, output |-> 4400]),
     gemini |->
        ("gemini-1.5-flash" :> [input |-> 75, output |-> 300] @@
         "gemini-1.5-pro" :> [input |-> 3500, output |-> 10500] @@
         "gemini-2.0-flash" :> [input |-> 100, output |-> 400]),
     claude |->
        ("claude-3-5-sonnet-20241022" :> [input |-> 3000, output |-> 15000] @@
         "claude-3-opus-20240229" :> [input |-> 15000, output |-> 75000] @@
         "claude-3-haiku-20240307" :> [input |-> 250, output |-> 1250])]

\* calculateCost charging the output tokens at the input price
calculateCost_inputPriceOnly(provider, model, inputTokens, outputTokens) ==
    LET providerPricing == PRICING_PER_MILLION_TOKENS[provider]
    IN  IF model \notin DOMAIN providerPricing
        THEN 0
        ELSE (inputTokens + outputTokens) * providerPricing[model].input

\* calculateCost, in billionths of a dollar. The model ids of the settings are ids that a
\* version of the settings tab offers, none of them a name inherited from Object.prototype,
\* so providerPricing[model] is defined exactly for the ids listed in the table.
calculateCost(provider, model, inputTokens, outputTokens) ==
    LET providerPricing == PRICING_PER_MILLION_TOKENS[provider]
    IN  IF model \notin DOMAIN providerPricing
        THEN 0
        ELSE LET modelPricing == providerPricing[model]
                 inputCost == inputTokens * modelPricing.input
                 outputCost == outputTokens * modelPricing.output
             IN  inputCost + outputCost

\* the characters of the OpenAI model ids: the ids of the pricing table and the ids that the
\* earlier pricing table offered and this one dropped
Spelling ==
    "gpt-5.2" :> <<"g","p","t","-","5",".","2">> @@
    "gpt-5.2-pro" :> <<"g","p","t","-","5",".","2","-","p","r","o">> @@
    "gpt-5.1" :> <<"g","p","t","-","5",".","1">> @@
    "gpt-5" :> <<"g","p","t","-","5">> @@
    "gpt-5-mini" :> <<"g","p","t","-","5","-","m","i","n","i">> @@
    "gpt-5-nano" :> <<"g","p","t","-","5","-","n","a","n","o">> @@
    "gpt-5-pro" :> <<"g","p","t","-","5","-","p","r","o">> @@
    "gpt-4.1" :> <<"g","p","t","-","4",".","1">> @@
    "gpt-4.1-mini" :> <<"g","p","t","-","4",".","1","-","m","i","n","i">> @@
    "gpt-4.1-nano" :> <<"g","p","t","-","4",".","1","-","n","a","n","o">> @@
    "gpt-4o" :> <<"g","p","t","-","4","o">> @@
    "gpt-4o-mini" :> <<"g","p","t","-","4","o","-","m","i","n","i">> @@
    "o3" :> <<"o","3">> @@
    "o3-pro" :> <<"o","3","-","p","r","o">> @@
    "o4-mini" :> <<"o","4","-","m","i","n","i">> @@
    "o1" :> <<"o","1">> @@
    "o1-pro" :> <<"o","1","-","p","r","o">> @@
    "o1-mini" :> <<"o","1","-","m","i","n","i">> @@
    "gpt-4-turbo" :> <<"g","p","t","-","4","-","t","u","r","b","o">> @@
    "gpt-4" :> <<"g","p","t","-","4">> @@
    "gpt-3.5-turbo" :> <<"g","p","t","-","3",".","5","-","t","u","r","b","o">>

\* the prefixes isResponsesAPIModel tests: 'gpt-5', 'gpt-4.1', 'o3', 'o4'
ResponsesPrefixes ==
    {<<"g","p","t","-","5">>, <<"g","p","t","-","4",".","1">>, <<"o","3">>, <<"o","4">>}

\* a routing test that knows the 'gpt-5' family only
isResponsesAPIModel_gpt5Only(model) ==
    startsWith(Spelling[model], <<"g","p","t","-","5">>)

isResponsesAPIModel(model) ==
    \E prefix \in ResponsesPrefixes : startsWith(Spelling[model], prefix)

\* !v for a string v of the settings
not(v) == v = ""

\* const model = this.settings.openaiModel || 'gpt-4o-mini'
openaiModelOrDefault(s) == IF not(s.openaiModel) THEN "gpt-4o-mini" ELSE s.openaiModel

-----------------------------------------------------------------------------
(* AIService: the adapters.  A call runs synchronously up to the await of  *)
(* requestUrl; what follows the await runs when the reply arrives.         *)

NoCall == [op |-> "none", route |-> "none", model |-> ""]

NoResult == [kind |-> "none"]

\* the awaited requestUrl: not settled, rejected with an error, resolved with response.json
NoReply == [settled |-> "no"]
Rejected(error) == [settled |-> "rejected", error |-> error]
Resolved(json) == [settled |-> "resolved", json |-> json]

\* parseResponse has not returned
NotParsed == [title |-> <<"?">>, content |-> <<"?">>]

\* throw error
Error(error) == [kind |-> "error", error |-> error]

\* the AIResponse an adapter returns; estimatedCost in billionths of a dollar
AIResponse(content, inputTokens, outputTokens, totalTokens, estimatedCost) ==
    [kind |-> "response",
     title |-> <<>>,
     content |-> content,
     inputTokens |-> inputTokens,
     outputTokens |-> outputTokens,
     totalTokens |-> totalTokens,
     estimatedCost |-> estimatedCost]

\* the argument of requestUrl: endpoint, credential, and the model id, tools and prompt
\* of the body
Request(url, key, model, tools, prompt) ==
    [url |-> url, key |-> key, model |-> model, tools |-> tools, prompt |-> prompt]

\* The fixed paragraphs of the two prompt templates, each written as one atom: the title
\* rule, the heading of the selected text with its opening quote, the heading of the
\* context, the heading of the user's question, the closing rule, and the instructions
\* that open and follow the title rule in the web-search template.
TitleRuleParagraph == <<"P:titleRule">>
SelectedTextHeading == <<"P:selectedText", "\"">>
ContextHeading == <<"\"", "P:context">>
QuestionHeading == <<"P:question", "\"">>
ClosingRule == <<"P:end">>
WebSearchInstructions == <<"P:webSearch">>
WebSearchFormatParagraph == <<"P:lengthAndHeadings", "P:sources">>

\* a question section added for every question that is not the empty string
questionSection_untrimmed(userQuestion) ==
    IF userQuestion # <<>> THEN QuestionHeading \o userQuestion \o <<"\"">> ELSE <<>>

questionSection(userQuestion) ==
    IF trim(userQuestion) # <<>> THEN QuestionHeading \o userQuestion \o <<"\"">> ELSE <<>>

buildPrompt(s, selectedText, context, userQuestion) ==
    s.systemPrompt \o TitleRuleParagraph \o SelectedTextHeading \o selectedText
        \o ContextHeading \o context \o questionSection(userQuestion) \o ClosingRule

buildWebSearchPrompt(selectedText, context, userQuestion) ==
    WebSearchInstructions \o TitleRuleParagraph \o WebSearchFormatParagraph
        \o SelectedTextHeading \o selectedText
        \o ContextHeading \o context \o questionSection(userQuestion) \o ClosingRule

\* the arguments of the calls: the selected text, its context, no question
SelectedText == <<"a">>
Context == <<"b", " ", "a">>
UserQuestion == <<>>

\* const prompt = this.buildPrompt(...) / this.buildWebSearchPrompt(...)
ExpandPrompt(s) == buildPrompt(s, SelectedText, Context, UserQuestion)
WebSearchPrompt == buildWebSearchPrompt(SelectedText, Context, UserQuestion)

ChatCompletionsUrl == "https://api.openai.com/v1/chat/completions"
ResponsesUrl == "https://api.openai.com/v1/responses"
GeminiUrl == "https://generativelanguage.googleapis.com/v1beta/models/:generateContent"
ClaudeUrl == "https://api.anthropic.com/v1/messages"

\* a call ends with an error before any request
Throws(op, message) ==
    /\ pc' = "thrown"
    /\ call' = [op |-> op, route |-> "none", model |-> ""]
    /\ requests' = <<>>
    /\ result' = Error(message)
    /\ upstream' = NoReply

\* a call invokes requestUrl and awaits the reply
Awaits(op, route, model, request) ==
    /\ pc' = "awaiting"
    /\ call' = [op |-> op, route |-> route, model |-> model]
    /\ requests' = <<request>>
    /\ result' = NoResult
    /\ upstream' = NoReply

\* callOpenAI and the call of requestUrl in callOpenAIChatCompletions / callOpenAIResponses
callOpenAI ==
    IF not(settings.openaiApiKey)
    THEN Throws("expandKnowledge", "OpenAI API key is not configured")
    ELSE LET model == openaiModelOrDefault(settings)
         IN  IF isResponsesAPIModel(model)
             THEN Awaits("expandKnowledge", "responses", model,
                         Request(ResponsesUrl, settings.openaiApiKey, model, {},
                                 ExpandPrompt(settings)))
             ELSE Awaits("expandKnowledge", "chat", model,
                         Request(ChatCompletionsUrl, settings.openaiApiKey, model, {},
                                 ExpandPrompt(settings)))

\* callOpenAIWebSearch up to the await
callOpenAIWebSearch ==
    IF not(settings.openaiApiKey)
    THEN Throws("webSearch", "OpenAI API key is not configured")
    ELSE Awaits("webSearch", "webSearch", settings.openaiWebSearchModel,
                Request(ResponsesUrl, settings.openaiApiKey, settings.openaiWebSearchModel,
                        {"web_search_preview"}, WebSearchPrompt))

\* callGemini without its credential check
callGemini_noCheck ==
    Awaits("expandKnowledge", "gemini", settings.geminiModel,
           Request(GeminiUrl, settings.geminiApiKey, settings.geminiModel, {},
                   ExpandPrompt(settings)))

\* callGemini up to the await
callGemini ==
    IF not(settings.geminiApiKey)
    THEN Throws("expandKnowledge", "Gemini API key is not configured")
    ELSE Awaits("expandKnowledge", "gemini", settings.geminiModel,
                Request(GeminiUrl, settings.geminiApiKey, settings.geminiModel, {},
                   ExpandPrompt(settings)))

\* callClaude sending the prompt built from the settings the plugin ships with
callClaude_defaultPrompt ==
    IF not(settings.claudeApiKey)
    THEN Throws("expandKnowledge", "Claude API key is not configured")
    ELSE Awaits("expandKnowledge", "claude", settings.claudeModel,
                Request(ClaudeUrl, settings.claudeApiKey, settings.claudeModel, {},
                        ExpandPrompt(DEFAULT_SETTINGS)))

\* callClaude up to the await
callClaude ==
    IF not(settings.claudeApiKey)
    THEN Throws("expandKnowledge", "Claude API key is not configured")
    ELSE Awaits("expandKnowledge", "claude", settings.claudeModel,
                Request(ClaudeUrl, settings.claudeApiKey, settings.claudeModel, {},
                        ExpandPrompt(settings)))

\* callOpenAIChatCompletions after the await: data.choices[0].message.content and data.usage
\* are read without a default, an absent one raises a TypeError
chatCompletionsReturn(reply, model) ==
    IF ~reply.body.hasText \/ ~reply.usage.hasUsage
    THEN Error("TypeError")
    ELSE AIResponse(reply.body.text,
                    reply.usage.input, reply.usage.output, reply.usage.total,
                    calculateCost("openai", model, reply.usage.input, reply.usage.output))

\* callOpenAIResponses after the await
responsesReturn(reply, model) ==
    LET content == IF reply.body.hasText THEN reply.body.text ELSE <<>>
        inputTokens == IF reply.usage.hasUsage THEN reply.usage.input ELSE 0
        outputTokens == IF reply.usage.hasUsage THEN reply.usage.output ELSE 0
    IN  AIResponse(content, inputTokens, outputTokens, inputTokens + outputTokens,
                   calculateCost("openai", model, inputTokens, outputTokens))

\* callOpenAIWebSearch after the await: the model id is read from the settings again
webSearchReturn(reply, s) == responsesReturn(reply, s.openaiWebSearchModel)

\* callGemini after the await: the model id is read from the settings again
geminiReturn(reply, s) ==
    IF ~reply.body.hasText \/ ~reply.usage.hasUsage
    THEN Error("TypeError")
    ELSE AIResponse(reply.body.text,
                    reply.usage.input, reply.usage.output, reply.usage.total,
                    calculateCost("gemini", s.geminiModel, reply.usage.input, reply.usage.output))

\* callClaude after the await: the model id is read from the settings again
claudeReturn(reply, s) ==
    IF ~reply.body.hasText \/ ~reply.usage.hasUsage
    THEN Error("TypeError")
    ELSE AIResponse(reply.body.text,
                    reply.usage.input, reply.usage.output,
                    reply.usage.input + reply.usage.output,
                    calculateCost("claude", s.claudeModel, reply.usage.input, reply.usage.output))

\* the adapter that awaits the reply builds its result
adapterReturn(c, reply, s) ==
    CASE c.route = "chat" -> chatCompletionsReturn(reply, c.model)
      [] c.route = "responses" -> responsesReturn(reply, c.model)
      [] c.route = "webSearch" -> webSearchReturn(reply, s)
      [] c.route = "gemini" -> geminiReturn(reply, s)
      [] c.route = "claude" -> claudeReturn(reply, s)

\* a post-processing that parses the reply text as it came
postProcess_parseOnly(response) ==
    LET p == parseResponse(response.content)
    IN  [response EXCEPT !.title = p.title, !.content = p.content]

\* expandKnowledge / webSearch after the adapter returned: strip, parse, set title and content
postProcess(response) ==
    LET strippedContent == stripMarkdownCodeBlock(response.content)
        p == parseResponse(strippedContent)
    IN  [response EXCEPT !.title = p.title, !.content = p.content]

-----------------------------------------------------------------------------
(* The plugin (main.ts): capturing the selection of the editor, creating the *)
(* note and putting the wiki link in the source note.  An editor position is *)
(* [line, ch], both counted from 0.                                          *)

\* the path of the source note
SourcePath == "source.md"

\* editor.getCursor: the position of the offset k, 0 <= k <= length, in the document
EditorPosition(doc, k) ==
    LET feeds == {i \in 1..k : doc[i] = "\n"}
    IN  [line |-> Cardinality(feeds), ch |-> k - (IF feeds = {} THEN 0 ELSE Max(feeds))]

\* no SelectionContext
NoContext ==
    [filePath |-> "", from |-> [line |-> 0, ch |-> 0], to |-> [line |-> 0, ch |-> 0],
     selectedText |-> <<>>]

\* captureSelectionContext when the editor shows doc and its selection spans the offsets
\* anchor..head: the fields that replaceTextAtContext reads
captureSelectionContext(doc, anchor, head) ==
    [filePath |-> SourcePath,
     from |-> EditorPosition(doc, anchor),
     to |-> EditorPosition(doc, head),
     selectedText |-> SubSeq(doc, anchor + 1, head)]

\* `[[${newFile.basename}|${selectedText}]]`
wikiLinkOf(basename, selectedText) ==
    <<"[", "[", basename, "|">> \o selectedText \o <<"]", "]">>

\* charIndex after `for (let i = 0; i < line; i++) charIndex += lines[i].length + 1`,
\* for line <= lines.length
RECURSIVE charIndexOf(_, _)
charIndexOf(lines, line) ==
    IF line = 0 THEN 0 ELSE charIndexOf(lines, line - 1) + Len(lines[line]) + 1

\* String.prototype.substring(start, end): both clamped to 0..length, swapped if start > end
substring(s, start, end) ==
    LET clamp(n) == IF n < 0 THEN 0 ELSE IF n > Len(s) THEN Len(s) ELSE n
        lo == IF clamp(start) <= clamp(end) THEN clamp(start) ELSE clamp(end)
        hi == IF clamp(start) <= clamp(end) THEN clamp(end) ELSE clamp(start)
    IN  SubSeq(s, lo + 1, hi)

\* String.prototype.substring(start)
substringFrom(s, start) == substring(s, start, Len(s))

\* replaceTextAtContext putting the link at the end whatever the file holds
replaceTextAtContext_alwaysAppend(content, ctx, newText) ==
    [outcome |-> "appended", data |-> content \o <<"\n", "\n">> \o newText]

\* replaceTextAtContext once vault.read has given content: the data it passes to
\* vault.modify, or the TypeError of reading lines[i].length of a line that is not there
replaceTextAtContext(content, ctx, newText) ==
    LET lines == split(content)
    IN  IF ctx.from.line > Len(lines) \/ ctx.to.line > Len(lines)
        THEN [outcome |-> "TypeError", data |-> <<>>]
        ELSE LET fromIndex == charIndexOf(lines, ctx.from.line) + ctx.from.ch
                 toIndex == charIndexOf(lines, ctx.to.line) + ctx.to.ch
                 currentSelectedText == substring(content, fromIndex, toIndex)
             IN  IF currentSelectedText # ctx.selectedText
                 THEN [outcome |-> "appended",
                       data |-> content \o <<"\n", "\n">> \o newText]
                 ELSE [outcome |-> "replaced",
                       data |-> substring(content, 0, fromIndex) \o newText
                                    \o substringFrom(content, toIndex)]

\* an expansion that has not been started
NoOperation ==
    [pc |-> "none", command |-> "none", ctx |-> NoContext, note |-> "", wikiLink |-> <<>>,
     read |-> <<>>, writes |-> <<>>, notices |-> <<>>, threwAt |-> "none"]

\* expandSelectedTextFromEditor / webSearchFromEditor up to the await of the AIService:
\* the context is captured from the editor, which shows the source note
Begin(op, command) ==
    /\ ops[op].pc = "none"
    /\ file.exists
    /\ \E anchor \in 0..Len(file.content) : \E head \in (anchor + 1)..Len(file.content) :
          ops' = [ops EXCEPT ![op] =
                     [@ EXCEPT !.pc = "awaitingAI",
                               !.command = command,
                               !.ctx = captureSelectionContext(file.content, anchor, head),
                               !.notices = <<"wait">>]]
    /\ UNCHANGED <<file, notes, notEditorVars>>

expandSelectedTextFromEditor(op) == Begin(op, "expandKnowledge")

webSearchFromEditor(op) == Begin(op, "webSearch")

\* the catch block: the error is logged and shown in a Notice
Caught(op, at) ==
    ops' = [ops EXCEPT ![op] = [@ EXCEPT !.pc = "failed", !.threwAt = at,
                                          !.notices = Append(@, "error")]]

\* aiService.expandKnowledge / webSearch threw, or its promise was rejected
AICallFails(op) ==
    /\ ops[op].pc = "awaitingAI"
    /\ Caught(op, "ai")
    /\ UNCHANGED <<file, notes, notEditorVars>>

\* the basenames of the notes: `${dateStr}_${sanitizedTitle}`, each written as one character
NoteNames == {"N1", "N2"}

\* the AIService returned a response: the file name is made of the date and the title,
\* and, the template read, vault.create is called
AICallReturns(op) ==
    /\ ops[op].pc = "awaitingAI"
    /\ \E fileName \in NoteNames :
          ops' = [ops EXCEPT ![op] = [@ EXCEPT !.pc = "creating", !.note = fileName]]
    /\ UNCHANGED <<file, notes, notEditorVars>>

\* a failure of vault.create after which the link is put in the source note all the same
CreateFails_linksAnyway(op) ==
    /\ ops[op].pc = "creating"
    /\ ops' = [ops EXCEPT ![op] =
                  [@ EXCEPT !.pc = "reading",
                            !.wikiLink = wikiLinkOf(ops[op].note,
                                                   ops[op].ctx.selectedText),
                            !.notices = Append(@, "error")]]
    /\ UNCHANGED <<file, notes, notEditorVars>>

\* vault.create rejected (a note of that name exists, no such folder, ...)
CreateFails(op) ==
    /\ ops[op].pc = "creating"
    /\ Caught(op, "create")
    /\ UNCHANGED <<file, notes, notEditorVars>>

\* vault.create resolved: the link is built and replaceTextAtContext runs up to its
\* await of vault.read, or, the source path resolving to no file, returns
CreateSucceeds(op) ==
    /\ ops[op].pc = "creating"
    /\ ops[op].note \notin notes
    /\ notes' = notes \cup {ops[op].note}
    /\ LET wikiLink == wikiLinkOf(ops[op].note, ops[op].ctx.selectedText)
       IN  ops' = [ops EXCEPT ![op] =
                      IF file.exists
                      THEN [@ EXCEPT !.pc = "reading", !.wikiLink = wikiLink]
                      ELSE [@ EXCEPT !.pc = "done", !.wikiLink = wikiLink,
                                     !.notices = @ \o <<"notFound", "success">>]]
    /\ UNCHANGED <<file, notEditorVars>>

\* vault.read rejected: the file is gone
ReadFails(op) ==
    /\ ops[op].pc = "reading"
    /\ ~file.exists
    /\ Caught(op, "read")
    /\ UNCHANGED <<file, notes, notEditorVars>>

\* vault.read resolved: the indexes are computed and vault.modify is called
ReadResolves(op) ==
    /\ ops[op].pc = "reading"
    /\ file.exists
    /\ LET content == file.content
           replaced == replaceTextAtContext(content, ops[op].ctx, ops[op].wikiLink)
       IN  ops' = [ops EXCEPT ![op] =
                      IF replaced.outcome = "TypeError"
                      THEN [@ EXCEPT !.pc = "failed", !.threwAt = "replace",
                                     !.read = content, !.notices = Append(@, "error")]
                      ELSE [@ EXCEPT !.pc = "modifying", !.read = content,
                                     !.writes = <<replaced.data>>,
                                     !.notices = IF replaced.outcome = "appended"
                                                 THEN Append(@, "modified") ELSE @]]
    /\ UNCHANGED <<file, notes, notEditorVars>>

\* vault.modify resolved: the file holds the data; the clickable Notice is shown
ModifyResolves(op) ==
    /\ ops[op].pc = "modifying"
    /\ file' = [file EXCEPT !.content = ops[op].writes[1]]
    /\ ops' = [ops EXCEPT ![op] = [@ EXCEPT !.pc = "done",
                                             !.notices = Append(@, "success")]]
    /\ UNCHANGED <<notes, notEditorVars>>

\* some expansion has been started and has not finished
InFlight == \E op \in DOMAIN ops : ops[op].pc \notin {"none", "done", "failed"}

-----------------------------------------------------------------------------
(* The components that take no part in a run stay as constructed *)

KwOff ==
    /\ kwIn = [text |-> <<>>, title |-> <<>>, maxTags |-> 10]
    /\ kwOut = <<>>
    /\ kwPc = "idle"

SvcOff ==
    /\ settings = DEFAULT_SETTINGS
    /\ pc = "idle"
    /\ call = NoCall
    /\ requests = <<>>
    /\ result = NoResult
    /\ upstream = NoReply

ParseOff ==
    /\ raw = <<>>
    /\ parsed = NotParsed

FnOff ==
    /\ fnIn = <<>>
    /\ fnOut = <<>>
    /\ fnPc = "idle"

\* no source note is open and no expansion has been started
EditorOff ==
    /\ file = [exists |-> FALSE, content |-> <<>>]
    /\ notes = {}
    /\ ops = <<>>

\* new KeywordExtractor(maxTags): the fields the constructor sets
KeywordExtractor(maxTags) ==
    [maxTags |-> maxTags, stopwordsKo |-> stopwordsKo, stopwordsEn |-> stopwordsEn]

\* no call made, or none remembered
NoKeywordCall == [made |-> FALSE]

CallsOff ==
    /\ extractor = KeywordExtractor(10)
    /\ kwCalls = 0
    /\ kwLast = NoKeywordCall
    /\ kwRef = NoKeywordCall

-----------------------------------------------------------------------------
(* The inputs of the keyword runs: texts are concatenations of a few tokens *)

MaxTextTokens == 3

TokAB == <<"A","B">>
TokThe == <<"T","h","e">>
TokEseo == <<"ko:e","ko:seo">>
TokHoesa == <<"ko:hoe","ko:sa">>
TokCtor == <<"c","o","n","s","t","r","u","c","t","o","r">>
TokWon == <<"5","ko:won">>

\* "AB" (acronym), "The" (English stop word, capitalized), "eseo" (Korean stop word),
\* "hoesa" (Korean word), "constructor", "5won" (amount), blank and comma
TextTokens == {TokAB, TokThe, TokEseo, TokHoesa, TokCtor, TokWon, <<" ">>, <<",">>}

TokenStrings(tokens, n) ==
    {Concat(ts) : ts \in UNION {[1..k -> tokens] : k \in 0..n}}

Texts == TokenStrings(TextTokens, MaxTextTokens)

Titles == {<<>>, TokHoesa, TokAB \o <<" ">> \o TokAB}

\* new KeywordExtractor(maxTags): 10 in main.ts
MaxTagsValues == {2, 10}

-----------------------------------------------------------------------------
(* One call of extractKeywords on one extractor *)

KwInit ==
    /\ kwIn \in [text : Texts, title : Titles, maxTags : MaxTagsValues]
    /\ kwOut = <<>>
    /\ kwPc = "call"
    /\ SvcOff
    /\ ParseOff
    /\ FnOff
    /\ CallsOff
    /\ EditorOff

ExtractKeywords ==
    /\ kwPc = "call"
    /\ kwOut' = extractKeywords(kwIn.text, kwIn.title, kwIn.maxTags)
    /\ kwPc' = "done"
    /\ UNCHANGED <<kwIn, notKwVars>>

KwNext == ExtractKeywords

SpecKeywords == KwInit /\ [][KwNext]_vars

-----------------------------------------------------------------------------
(* Several calls of extractKeywords on one extractor *)

MaxCalls == 3

CallTexts == {<<>>, TokAB, TokCtor \o <<" ">> \o TokAB, TokHoesa \o <<" ">> \o TokWon}

CallTitles == {<<>>, TokAB}

CallsInit ==
    /\ \E maxTags \in MaxTagsValues : extractor = KeywordExtractor(maxTags)
    /\ kwCalls = 0
    /\ kwLast = NoKeywordCall
    /\ kwRef = NoKeywordCall
    /\ KwOff
    /\ SvcOff
    /\ ParseOff
    /\ FnOff
    /\ EditorOff

\* one more call; the first call that is observed is remembered in kwRef
ExtractKeywordsAgain ==
    /\ kwCalls < MaxCalls
    /\ \E text \in CallTexts : \E title \in CallTitles : \E observed \in BOOLEAN :
          LET done == extractKeywordsOn(extractor, text, title)
              this == [made |-> TRUE, nth |-> kwCalls + 1, text |-> text, title |-> title,
                       returned |-> done.returned, fields |-> extractor]
          IN  /\ extractor' = done.extractor
              /\ kwLast' = this
              /\ kwRef' = IF observed /\ ~kwRef.made THEN this ELSE kwRef
    /\ kwCalls' = kwCalls + 1
    /\ UNCHANGED notCallsVars

CallsNext == ExtractKeywordsAgain

SpecKeywordCalls == CallsInit /\ [][CallsNext]_vars

-----------------------------------------------------------------------------
(* The AIService of a running plugin: settings as loaded, calls of         *)
(* expandKnowledge and webSearch, replies of the upstream, and the         *)
(* settings tab changing a field at any time                               *)

\* values of the credential fields: not entered, entered
ApiKeys == {"", "sk-1"}

\* values of the model fields: ids the settings tab offers, '' and an id only the earlier
\* settings tab offered (openaiModel)
OpenAIModels == {"", "gpt-4o", "gpt-5", "gpt-4-turbo"}
OpenAIWebSearchModels == {"gpt-4o-mini", "gpt-5"}
GeminiModels == {"gemini-1.5-flash", "gemini-2.0-flash"}
ClaudeModels == {"claude-3-5-sonnet-20241022", "claude-3-haiku-20240307"}

\* the default text and a text typed into the System Prompt area
SystemPrompts == {DefaultSystemPrompt, <<"a">>}

SettingsValues ==
    [aiProvider : AIProviders,
     openaiApiKey : ApiKeys,
     openaiModel : OpenAIModels,
     openaiWebSearchModel : OpenAIWebSearchModels,
     geminiApiKey : ApiKeys,
     geminiModel : GeminiModels,
     claudeApiKey : ApiKeys,
     claudeModel : ClaudeModels,
     systemPrompt : SystemPrompts]

\* token counts an upstream reports: prompt and completion tokens, and a total that may
\* count further tokens (Gemini's totalTokenCount includes thoughtsTokenCount)
InputCounts == {1000}
OutputCounts == {0, 500}
OtherCounts == {0, 100}

NoUsage == [hasUsage |-> FALSE, input |-> 0, output |-> 0, total |-> 0]

Usages ==
    {[hasUsage |-> TRUE, input |-> i, output |-> o, total |-> i + o + x] :
        i \in InputCounts, o \in OutputCounts, x \in OtherCounts}

\* reply texts: 'a', and a block fenced as 'md' that holds a title line, a blank line and
\* a body
FencedReply == FenceMd \o <<"\n">> \o TitleMarker \o <<" ","a","\n","\n","b","\n">> \o Fence

ReplyTexts == {<<"a">>, FencedReply}

NoBody == [hasText |-> FALSE, text |-> <<>>]

Bodies == {[hasText |-> TRUE, text |-> t] : t \in ReplyTexts}

\* response.json of a successful request
Replies == [body : Bodies \cup {NoBody}, usage : Usages \cup {NoUsage}]

\* errors requestUrl raises: no connection, a status of 400 or more
TransportErrors == {"net::ERR_FAILED", "Request failed, status 401"}

\* the fields the settings tab shows: the provider, and the fields of the selected provider
FieldsOf ==
    [openai |-> {"aiProvider", "openaiApiKey", "openaiModel", "openaiWebSearchModel",
                 "systemPrompt"},
     gemini |-> {"aiProvider", "geminiApiKey", "geminiModel", "systemPrompt"},
     claude |-> {"aiProvider", "claudeApiKey", "claudeModel", "systemPrompt"}]

\* the values a field of the settings takes
ValuesOf ==
    [aiProvider |-> AIProviders,
     openaiApiKey |-> ApiKeys,
     openaiModel |-> OpenAIModels,
     openaiWebSearchModel |-> OpenAIWebSearchModels,
     geminiApiKey |-> ApiKeys,
     geminiModel |-> GeminiModels,
     claudeApiKey |-> ApiKeys,
     claudeModel |-> ClaudeModels,
     systemPrompt |-> SystemPrompts]

\* onload: loadSettings, new AIService(this.settings); the system prompt is the default
\* one until it is edited in the settings tab
SvcInit ==
    /\ settings \in {s \in SettingsValues : s.systemPrompt = DefaultSystemPrompt}
    /\ pc = "idle"
    /\ call = NoCall
    /\ requests = <<>>
    /\ result = NoResult
    /\ upstream = NoReply
    /\ KwOff
    /\ ParseOff
    /\ FnOff
    /\ CallsOff
    /\ EditorOff

\* expandKnowledge up to its await
ExpandKnowledge ==
    /\ pc = "idle"
    /\ CASE settings.aiProvider = "openai" -> callOpenAI
         [] settings.aiProvider = "gemini" -> callGemini
         [] settings.aiProvider = "claude" -> callClaude
    /\ UNCHANGED <<settings, notSvcVars>>

\* webSearch requiring the credential of the selected provider
WebSearch_selectedProviderKey ==
    /\ pc = "idle"
    /\ IF not(settings[CHOOSE f \in {"openaiApiKey", "geminiApiKey", "claudeApiKey"} :
                        f \in FieldsOf[settings.aiProvider]])
       THEN Throws("webSearch", "OpenAI API key is required for web search")
       ELSE Awaits("webSearch", "webSearch", settings.openaiWebSearchModel,
                   Request(ResponsesUrl, settings.openaiApiKey, settings.openaiWebSearchModel,
                           {"web_search_preview"}, WebSearchPrompt))
    /\ UNCHANGED <<settings, notSvcVars>>

\* webSearch up to its await
WebSearch ==
    /\ pc = "idle"
    /\ IF not(settings.openaiApiKey)
       THEN Throws("webSearch", "OpenAI API key is required for web search")
       ELSE callOpenAIWebSearch
    /\ UNCHANGED <<settings, notSvcVars>>

\* requestUrl rejects and the adapter sends its request once more
RequestFails_retry ==
    /\ pc = "awaiting"
    /\ Len(requests) = 1
    /\ requests' = requests \o requests
    /\ UNCHANGED <<settings, pc, call, result, upstream, notSvcVars>>

\* a requestUrl whose error is caught and replaced by a new one
RequestFails_wrapped ==
    /\ pc = "awaiting"
    /\ \E error \in TransportErrors :
          /\ upstream' = Rejected(error)
          /\ result' = Error("API request failed")
    /\ pc' = "thrown"
    /\ UNCHANGED <<settings, call, requests, notSvcVars>>

\* requestUrl rejects: the awaiting adapter and expandKnowledge / webSearch pass the error on
RequestFails ==
    /\ pc = "awaiting"
    /\ \E error \in TransportErrors :
          /\ upstream' = Rejected(error)
          /\ result' = Error(error)
    /\ pc' = "thrown"
    /\ UNCHANGED <<settings, call, requests, notSvcVars>>

\* requestUrl resolves: the adapter builds the AIResponse, the caller post-processes it
RequestSucceeds ==
    /\ pc = "awaiting"
    /\ \E json \in Replies :
          LET response == adapterReturn(call, json, settings)
          IN  /\ upstream' = Resolved(json)
              /\ IF response.kind = "error"
                 THEN pc' = "thrown" /\ result' = response
                 ELSE pc' = "returned" /\ result' = postProcess(response)
    /\ UNCHANGED <<settings, call, requests, notSvcVars>>

\* the command that made the call takes the response or the error
CallEnds ==
    /\ pc \in {"returned", "thrown"}
    /\ pc' = "idle"
    /\ call' = NoCall
    /\ requests' = <<>>
    /\ result' = NoResult
    /\ upstream' = NoReply
    /\ UNCHANGED <<settings, notSvcVars>>

\* the settings tab: onChange assigns one field of plugin.settings, the object the service
\* reads, then saveSettings calls updateSettings with that same object. An input event is
\* a task of its own: it runs while no call is running or while a call awaits its request.
ChangeSetting ==
    /\ pc \in {"idle", "awaiting"}
    /\ \E field \in FieldsOf[settings.aiProvider] :
          \E value \in ValuesOf[field] \ {settings[field]} :
             settings' = [settings EXCEPT ![field] = value]
    /\ UNCHANGED <<pc, call, requests, result, upstream, notSvcVars>>

SvcNext ==
    \/ ExpandKnowledge
    \/ WebSearch
    \/ RequestFails
    \/ RequestSucceeds
    \/ CallEnds
    \/ ChangeSetting

SpecService == SvcInit /\ [][SvcNext]_vars


-----------------------------------------------------------------------------
(* The OpenAI routes of a plugin with an OpenAI credential: every model id of *)
(* the two dropdowns, calls, replies, and the model dropdown changed at any   *)
(* time                                                                       *)

\* the options of the two OpenAI model dropdowns
OpenAIModelOptions == DOMAIN PRICING_PER_MILLION_TOKENS.openai

\* openaiModel as loaded: an option, a model id an earlier version offered, or nothing
LoadedOpenAIModels == DOMAIN Spelling \cup {""}

RouteInit ==
    /\ \E model \in LoadedOpenAIModels : \E webSearchModel \in OpenAIModelOptions :
          settings = [DEFAULT_SETTINGS EXCEPT !.openaiApiKey = "sk-1",
                                              !.openaiModel = model,
                                              !.openaiWebSearchModel = webSearchModel]
    /\ pc = "idle"
    /\ call = NoCall
    /\ requests = <<>>
    /\ result = NoResult
    /\ upstream = NoReply
    /\ KwOff
    /\ ParseOff
    /\ FnOff
    /\ CallsOff
    /\ EditorOff

\* the dropdown 'OpenAI Model (Expand Knowledge)': onChange assigns openaiModel and saves
ChangeOpenAIModel ==
    /\ pc \in {"idle", "awaiting"}
    /\ \E value \in OpenAIModelOptions \ {settings.openaiModel} :
          settings' = [settings EXCEPT !.openaiModel = value]
    /\ UNCHANGED <<pc, call, requests, result, upstream, notSvcVars>>

RouteNext ==
    \/ ExpandKnowledge
    \/ WebSearch
    \/ RequestFails
    \/ RequestSucceeds
    \/ CallEnds
    \/ ChangeOpenAIModel

SpecRoute == RouteInit /\ [][RouteNext]_vars

-----------------------------------------------------------------------------
(* One call of parseResponse; the raw texts are concatenations of a few tokens *)

MaxRawTokens == 5

\* the title marker, its two syllables alone, blank, line feed, 'a' and colon
RawTokens == {TitleMarker, <<"ko:je","ko:mok">>, <<" ">>, <<"\n">>, <<"a">>, <<":">>}

RawTexts == TokenStrings(RawTokens, MaxRawTokens)

ParseInit ==
    /\ raw \in RawTexts
    /\ parsed = NotParsed
    /\ KwOff
    /\ SvcOff
    /\ FnOff
    /\ CallsOff
    /\ EditorOff

ParseResponse ==
    /\ parsed = NotParsed
    /\ parsed' = parseResponse(raw)
    /\ UNCHANGED <<raw, notParseVars>>

ParseNext == ParseResponse

SpecParse == ParseInit /\ [][ParseNext]_vars

-----------------------------------------------------------------------------
(* One call of stripMarkdownCodeBlock; the contents are concatenations of a *)
(* few tokens                                                                *)

MaxStripTokens == 4

\* a fence, one backquote, the two language tags, blank, line feed and 'a'
StripTokens == {Fence, <<"BQ">>, <<"m","d">>, <<"m","a","r","k","d","o","w","n">>,
                <<" ">>, <<"\n">>, <<"a">>}

StripTexts == TokenStrings(StripTokens, MaxStripTokens)

StripInit ==
    /\ fnIn \in StripTexts
    /\ fnOut = <<>>
    /\ fnPc = "call"
    /\ KwOff
    /\ SvcOff
    /\ ParseOff
    /\ CallsOff
    /\ EditorOff

StripMarkdownCodeBlock ==
    /\ fnPc = "call"
    /\ fnOut' = stripMarkdownCodeBlock(fnIn)
    /\ fnPc' = "done"
    /\ UNCHANGED <<fnIn, notFnVars>>

StripNext == StripMarkdownCodeBlock

SpecStrip == StripInit /\ [][StripNext]_vars

-----------------------------------------------------------------------------
(* One call of extractNumbers; the texts are concatenations of a few tokens *)

MaxNumberTokens == 4

\* a digit, four digits, a thousands group, a money unit, won, year, month, day, persons
NumberTokens == {<<"1">>, <<"2","0","2","5">>, <<",","0","0","0">>, <<"ko:man">>,
                 <<"ko:won">>, <<"ko:nyeon">>, <<"ko:wol">>, <<"ko:il">>, <<"ko:myeong">>}

\* 'igeoseun teseuteuimnida 2025nyeon 1wol15ire 1,000myeongi chamgahaetda'
NumbersExample ==
    <<"ko:i","ko:geot","ko:eun"," ","ko:te","ko:seu","ko:teu","ko:ip","ko:ni","ko:da"," ",
      "2","0","2","5","ko:nyeon"," ","1","ko:wol","1","5","ko:il","ko:e"," ",
      "1",",","0","0","0","ko:myeong","ko:i"," ","ko:cham","ko:ga","ko:haess","ko:da">>

NumberTexts == TokenStrings(NumberTokens, MaxNumberTokens) \cup {NumbersExample}

NumbersInit ==
    /\ fnIn \in NumberTexts
    /\ fnOut = <<>>
    /\ fnPc = "call"
    /\ KwOff
    /\ SvcOff
    /\ ParseOff
    /\ CallsOff
    /\ EditorOff

ExtractNumbers ==
    /\ fnPc = "call"
    /\ fnOut' = extractNumbers(fnIn)
    /\ fnPc' = "done"
    /\ UNCHANGED <<fnIn, notFnVars>>

NumbersNext == ExtractNumbers

SpecNumbers == NumbersInit /\ [][NumbersNext]_vars

-----------------------------------------------------------------------------
(* One call of extractGeneralKeywords; the texts are concatenations of a few tokens *)

MaxGeneralTokens == 3

\* 'AB', 'Abc', 'The', 'the', 'a', a blank and a Korean word
GeneralTokens == {TokAB, <<"A","b","c">>, TokThe, <<"t","h","e">>, <<"a">>, <<" ">>, TokHoesa}

GeneralTexts == TokenStrings(GeneralTokens, MaxGeneralTokens)

GeneralInit ==
    /\ fnIn \in GeneralTexts
    /\ fnOut = <<>>
    /\ fnPc = "call"
    /\ KwOff
    /\ SvcOff
    /\ ParseOff
    /\ CallsOff
    /\ EditorOff

ExtractGeneralKeywords ==
    /\ fnPc = "call"
    /\ fnOut' = extractGeneralKeywords(fnIn)
    /\ fnPc' = "done"
    /\ UNCHANGED <<fnIn, notFnVars>>

GeneralNext == ExtractGeneralKeywords

SpecGeneral == GeneralInit /\ [][GeneralNext]_vars

-----------------------------------------------------------------------------
(* stripMarkdownCodeBlock applied to a content and then to its own result *)

StripTwiceInit == StripInit

\* the first application
StripOnce ==
    /\ fnPc = "call"
    /\ fnOut' = <<stripMarkdownCodeBlock(fnIn)>>
    /\ fnPc' = "done"
    /\ UNCHANGED <<fnIn, notFnVars>>

\* the second application, to the result of the first; fnOut keeps both results
StripAgain ==
    /\ fnPc = "done"
    /\ fnOut' = Append(fnOut, stripMarkdownCodeBlock(fnOut[1]))
    /\ fnPc' = "again"
    /\ UNCHANGED <<fnIn, notFnVars>>

StripTwiceNext == StripOnce \/ StripAgain

SpecStripTwice == StripTwiceInit /\ [][StripTwiceNext]_vars

-----------------------------------------------------------------------------
(* One call of buildPrompt or of buildWebSearchPrompt *)

MaxQuestionTokens == 2

\* a blank, a line feed and a letter
QuestionTokens == {<<" ">>, <<"\n">>, <<"q">>}

\* the system prompt of the settings: the default, a text typed in, and the cleared area;
\* the arguments of the call
PromptInputs ==
    [systemPrompt : SystemPrompts \cup {<<>>},
     selectedText : {<<"a">>, <<"b">>},
     context : {<<>>, <<"b", " ", "a">>},
     userQuestion : TokenStrings(QuestionTokens, MaxQuestionTokens)]

NoPrompt == [method |-> "none", prompt |-> <<>>]

PromptInit ==
    /\ fnIn \in PromptInputs
    /\ fnOut = NoPrompt
    /\ fnPc = "call"
    /\ KwOff
    /\ SvcOff
    /\ ParseOff
    /\ CallsOff
    /\ EditorOff

BuildPrompt ==
    /\ fnPc = "call"
    /\ fnOut' = [method |-> "buildPrompt",
                 prompt |-> buildPrompt([DEFAULT_SETTINGS EXCEPT
                                             !.systemPrompt = fnIn.systemPrompt],
                                        fnIn.selectedText, fnIn.context, fnIn.userQuestion)]
    /\ fnPc' = "done"
    /\ UNCHANGED <<fnIn, notFnVars>>

BuildWebSearchPrompt ==
    /\ fnPc = "call"
    /\ fnOut' = [method |-> "buildWebSearchPrompt",
                 prompt |-> buildWebSearchPrompt(fnIn.selectedText, fnIn.context,
                                                 fnIn.userQuestion)]
    /\ fnPc' = "done"
    /\ UNCHANGED <<fnIn, notFnVars>>

PromptNext == BuildPrompt \/ BuildWebSearchPrompt

SpecPrompt == PromptInit /\ [][PromptNext]_vars

-----------------------------------------------------------------------------
(* One expansion started from the editor on the source note, which the user *)
(* may edit, delete or rename while the expansion is in flight              *)

MaxDocChars == 3

DocChars == {"a", "\n"}

\* the contents of the source note
Documents == UNION {[1..n -> DocChars] : n \in 0..MaxDocChars}

ExpansionInit ==
    /\ file \in [exists : {TRUE}, content : Documents]
    /\ notes = {}
    /\ ops = <<NoOperation>>
    /\ KwOff
    /\ SvcOff
    /\ ParseOff
    /\ FnOff
    /\ CallsOff

\* the documents one keystroke away from doc: a character deleted, or one inserted
Keystrokes(doc) ==
    {SubSeq(doc, 1, k - 1) \o SubSeq(doc, k + 1, Len(doc)) : k \in 1..Len(doc)}
        \cup {d \in {SubSeq(doc, 1, k) \o <<c>> \o SubSeq(doc, k + 1, Len(doc)) :
                        k \in 0..Len(doc), c \in DocChars} : Len(d) <= MaxDocChars}

\* the user edits the source note while an expansion is in flight; the edit is saved
EditSource ==
    /\ InFlight
    /\ file.exists
    /\ \E doc \in Keystrokes(file.content) : file' = [file EXCEPT !.content = doc]
    /\ UNCHANGED <<notes, ops, notEditorVars>>

\* the user deletes or renames the source note while an expansion is in flight and no
\* vault.modify is pending: its captured path resolves to no file any more
RemoveSource ==
    /\ InFlight
    /\ file.exists
    /\ \A op \in DOMAIN ops : ops[op].pc # "modifying"
    /\ file' = [file EXCEPT !.exists = FALSE]
    /\ UNCHANGED <<notes, ops, notEditorVars>>

ExpansionNext ==
    \/ \E op \in DOMAIN ops : expandSelectedTextFromEditor(op)
    \/ \E op \in DOMAIN ops : webSearchFromEditor(op)
    \/ \E op \in DOMAIN ops : AICallFails(op)
    \/ \E op \in DOMAIN ops : AICallReturns(op)
    \/ \E op \in DOMAIN ops : CreateFails(op)
    \/ \E op \in DOMAIN ops : CreateSucceeds(op)
    \/ \E op \in DOMAIN ops : ReadFails(op)
    \/ \E op \in DOMAIN ops : ReadResolves(op)
    \/ \E op \in DOMAIN ops : ModifyResolves(op)
    \/ EditSource
    \/ RemoveSource

SpecExpansion == ExpansionInit /\ [][ExpansionNext]_vars

-----------------------------------------------------------------------------
(* Two expansions in flight on the same source note: both were started from *)
(* the editor, each on its own selection, before either reply arrived       *)

MaxSharedChars == 2

SharedDocuments == UNION {[1..n -> DocChars] : n \in 0..MaxSharedChars}

\* an expansion as Begin leaves it
Begun(command, ctx) ==
    [NoOperation EXCEPT !.pc = "awaitingAI", !.command = command, !.ctx = ctx,
                        !.notices = <<"wait">>]

\* the selections of a document: anchor < head
SelectionsOf(doc) == {s \in (0..Len(doc)) \X (0..Len(doc)) : s[1] < s[2]}

TwoExpansionsInit ==
    /\ \E doc \in SharedDocuments :
          /\ file = [exists |-> TRUE, content |-> doc]
          /\ \E s1, s2 \in SelectionsOf(doc) :
                \E c1, c2 \in {"expandKnowledge", "webSearch"} :
                   ops = <<Begun(c1, captureSelectionContext(doc, s1[1], s1[2])),
                           Begun(c2, captureSelectionContext(doc, s2[1], s2[2]))>>
    /\ notes = {}
    /\ KwOff
    /\ SvcOff
    /\ ParseOff
    /\ FnOff
    /\ CallsOff

TwoExpansionsNext ==
    \/ \E op \in DOMAIN ops : AICallFails(op)
    \/ \E op \in DOMAIN ops : AICallReturns(op)
    \/ \E op \in DOMAIN ops : CreateFails(op)
    \/ \E op \in DOMAIN ops : CreateSucceeds(op)
    \/ \E op \in DOMAIN ops : ReadResolves(op)
    \/ \E op \in DOMAIN ops : ModifyResolves(op)

SpecTwoExpansions == TwoExpansionsInit /\ [][TwoExpansionsNext]_vars

-----------------------------------------------------------------------------
(* The while loop of extractProperNouns over companyPattern.exec(text), one *)
(* iteration at a time; the texts are concatenations of a few tokens        *)

MaxLoopTokens == 4

\* the company word, the company mark, a blank, a Hangul syllable, 'AB', a comma, a digit
LoopTokens == {CompanyWord, <<CompanyMark>>, <<" ">>, <<"ko:hoe">>, TokAB, <<",">>, <<"5">>}

LoopTexts == TokenStrings(LoopTokens, MaxLoopTokens)

\* exec of a pattern without the g flag: the search starts at 0 and lastIndex stays 0
companyExec_notGlobal(s, lastIndex) ==
    LET starts == {i \in 1..Len(s) : companyPatternAt(s, i).to > 0}
        m == companyPatternAt(s, Min(starts))
    IN  IF starts = {}
        THEN [match |-> FALSE, index |-> 0, lastIndex |-> 0, group1 |-> <<>>]
        ELSE [match |-> TRUE, index |-> Min(starts) - 1, lastIndex |-> 0,
              group1 |-> SubSeq(s, m.from, m.to)]

\* companyPattern.exec(s) when companyPattern.lastIndex = lastIndex: the leftmost match
\* that starts at lastIndex or later; index is where it starts, lastIndex where it ends
\* (0 after null), group1 is match[1]
companyExec(s, lastIndex) ==
    LET starts == {i \in (lastIndex + 1)..Len(s) : companyPatternAt(s, i).to > 0}
        m == companyPatternAt(s, Min(starts))
    IN  IF starts = {}
        THEN [match |-> FALSE, index |-> 0, lastIndex |-> 0, group1 |-> <<>>]
        ELSE [match |-> TRUE, index |-> Min(starts) - 1, lastIndex |-> m.to,
              group1 |-> SubSeq(s, m.from, m.to)]

CompanyLoopInit ==
    /\ fnIn \in LoopTexts
    /\ fnOut = [lastIndex |-> 0, iterations |-> 0, properNouns |-> <<>>]
    /\ fnPc = "call"
    /\ KwOff
    /\ SvcOff
    /\ ParseOff
    /\ CallsOff
    /\ EditorOff

\* exec returns a match: the body of the loop runs
CompanyMatch ==
    /\ fnPc = "call"
    /\ LET match == companyExec(fnIn, fnOut.lastIndex)
           company == trim(match.group1)
       IN  /\ match.match
           /\ fnOut' = [lastIndex |-> match.lastIndex,
                        iterations |-> fnOut.iterations + 1,
                        properNouns |-> IF Len(company) >= 2
                                        THEN Append(fnOut.properNouns, company)
                                        ELSE fnOut.properNouns]
    /\ UNCHANGED <<fnIn, fnPc, notFnVars>>

\* exec returns null: the loop ends
CompanyLoopEnds ==
    /\ fnPc = "call"
    /\ ~companyExec(fnIn, fnOut.lastIndex).match
    /\ fnOut' = [fnOut EXCEPT !.lastIndex = 0]
    /\ fnPc' = "done"
    /\ UNCHANGED <<fnIn, notFnVars>>

CompanyLoopNext ==
    \/ CompanyMatch
    \/ CompanyLoopEnds

SpecCompanyLoop == CompanyLoopInit /\ [][CompanyLoopNext]_vars

-----------------------------------------------------------------------------
(* Claims about extractKeywords *)

Count(seq, x) == Cardinality({k \in 1..Len(seq) : seq[k] = x})

Range(seq) == {seq[k] : k \in 1..Len(seq)}

NoDuplicates(seq) == \A i, j \in 1..Len(seq) : seq[i] = seq[j] => i = j

IndexOf(seq, x) == Min({k \in 1..Len(seq) : seq[k] = x})

\* the weighted count of s: its occurrences in the working multiset
Weight(text, title, s) == Count(keywordsOf(text, title), s)

\* end of the run of non-blank characters starting at i
nonBlankEnd(s, i) ==
    LET e == RunEnd(s, i, {c \in Range(s) : c \notin WhiteSpace})
    IN  IF e >= i THEN e ELSE 0

IsStopWord(w) == w \in stopwordsKo \/ toLowerCase(w) \in stopwordsEn

\* s is made up solely of stop words separated by whitespace
OnlyStopWords(s) ==
    \A w \in Range(ScanFrom(s, [i \in 1..Len(s) |-> nonBlankEnd(s, i)], 1)) : IsStopWord(w)

\* C1: no string returned by extractKeywords is a Korean stop word or, ignoring case, an
\* English stop word, and a text and title made up solely of stop words give no tag at all.
C1_StopWordsNeverEmitted ==
    kwPc = "done" =>
        /\ \A k \in 1..Len(kwOut) : ~IsStopWord(kwOut[k])
        /\ (OnlyStopWords(kwIn.text) /\ OnlyStopWords(kwIn.title)) => kwOut = <<>>

\* C2: extractKeywords returns at most maxTags strings and no string twice.
C2_AtMostMaxTagsNoDuplicates ==
    kwPc = "done" => Len(kwOut) <= kwIn.maxTags /\ NoDuplicates(kwOut)

\* C2: a call that found more distinct candidates than maxTags, one of them several
\* times, and returned exactly maxTags of them.
C2_Witness ==
    /\ kwPc = "done"
    /\ Cardinality(Range(keywordsOf(kwIn.text, kwIn.title))) > kwIn.maxTags
    /\ Len(kwOut) = kwIn.maxTags


\* the general keywords of the title
TitleTerms == IF kwIn.title # <<>> THEN extractGeneralKeywords(kwIn.title) ELSE <<>>

\* the terms the body contributes with weight 1: general keywords and numeric terms
BodyTerms == extractGeneralKeywords(kwIn.text) \o extractNumbers(kwIn.text)

Returned(s) == s \in Range(kwOut)

\* T is placed before B whenever both are returned
PlacedBefore(T, B) == (Returned(T) /\ Returned(B)) => IndexOf(kwOut, T) < IndexOf(kwOut, B)

\* T occurs n >= 1 times as a general keyword of the title, and the different term B occurs
\* n times in the text and never in the title
EquallyFrequent(T, B) ==
    /\ Count(TitleTerms, T) >= 1
    /\ B # T
    /\ Count(BodyTerms, B) = Count(TitleTerms, T)
    /\ Count(TitleTerms, B) = 0

\* C3 as stated: a title term outranks every body-only term that is as frequent in the
\* text as the title term is in the title: its weighted count is strictly greater and it
\* is placed first.
C3_TitleOutranksBody ==
    kwPc = "done" =>
        \A T, B \in Range(keywordsOf(kwIn.text, kwIn.title)) :
            EquallyFrequent(T, B) =>
                /\ Weight(kwIn.text, kwIn.title, T) > Weight(kwIn.text, kwIn.title, B)
                /\ PlacedBefore(T, B)

\* C3 amended: the same, for the body-only terms B that the proper-noun extractor does not
\* return for the text (proper nouns weigh twice more, on top of the body weight).
C3_TitleOutranksPlainBody ==
    kwPc = "done" =>
        \A T, B \in Range(keywordsOf(kwIn.text, kwIn.title)) :
            (EquallyFrequent(T, B) /\ Count(extractProperNouns(kwIn.text), B) = 0) =>
                /\ Weight(kwIn.text, kwIn.title, T) > Weight(kwIn.text, kwIn.title, B)
                /\ PlacedBefore(T, B)

\* C3: a call that returned a title term occurring twice in the title before a body-only
\* term occurring twice in the text that is no proper noun.
C3_Witness ==
    /\ kwPc = "done"
    /\ \E T, B \in Range(kwOut) :
          /\ EquallyFrequent(T, B)
          /\ Count(TitleTerms, T) = 2
          /\ Count(extractProperNouns(kwIn.text), B) = 0
          /\ IndexOf(kwOut, T) < IndexOf(kwOut, B)

\* a ranks before b: a greater weighted frequency, or the same and appended first
RanksBefore(a, b) ==
    LET kws == keywordsOf(kwIn.text, kwIn.title)
    IN  \/ Count(kws, a) > Count(kws, b)
        \/ Count(kws, a) = Count(kws, b) /\ IndexOf(kws, a) < IndexOf(kws, b)

\* C4: the result is the first maxTags strings of the candidates ordered by descending
\* weighted frequency, equal frequencies in the order of their first append.
C4_DescendingFrequencyStable ==
    kwPc = "done" =>
        LET cands == Range(keywordsOf(kwIn.text, kwIn.title))
        IN  /\ Range(kwOut) \subseteq cands
            /\ NoDuplicates(kwOut)
            /\ Len(kwOut) = (IF Cardinality(cands) < kwIn.maxTags
                             THEN Cardinality(cands) ELSE kwIn.maxTags)
            /\ \A i, j \in 1..Len(kwOut) : i < j => RanksBefore(kwOut[i], kwOut[j])
            /\ \A c \in cands \ Range(kwOut) :
                  \A i \in 1..Len(kwOut) : RanksBefore(kwOut[i], c)

\* none of the four extractions of a call yields a term
NothingExtracted(text, title) ==
    /\ title # <<>> => extractGeneralKeywords(title) = <<>>
    /\ extractProperNouns(text) = <<>>
    /\ extractGeneralKeywords(text) = <<>>
    /\ extractNumbers(text) = <<>>

\* C16: extractKeywords returns the empty list for an empty text with an empty title and,
\* more generally, whenever none of its extractions finds a term in the text and title.
C16_NothingExtractedNothingReturned ==
    (kwPc = "done" /\ NothingExtracted(kwIn.text, kwIn.title)) => kwOut = <<>>

\* a text of blanks and commas, without a title, gave no keyword
C16_Witness ==
    /\ kwPc = "done"
    /\ NothingExtracted(kwIn.text, kwIn.title)
    /\ Len(kwIn.text) >= 2
    /\ \E i \in 1..Len(kwIn.text) : kwIn.text[i] = ","
    /\ kwOut = <<>>

\* 3 x title keywords + 2 x proper nouns + body keywords + numeric terms equal to s
WeightedCount(text, title, s) ==
    3 * Count(extractGeneralKeywords(title), s)
        + 2 * Count(extractProperNouns(text), s)
        + Count(extractGeneralKeywords(text), s)
        + Count(extractNumbers(text), s)

\* C19: the frequency that extractKeywords assigns to a string is the number 3 x (its
\* occurrences among the general keywords of the title) + 2 x (among the proper nouns of
\* the text) + (among the general keywords of the text) + (among its numeric terms), and
\* the strings that have a frequency are those for which this number is positive.
C19_WeightedCountAssigned ==
    kwPc = "done" =>
        LET keywordFreq == countFrequency(keywordsOf(kwIn.text, kwIn.title))
            terms == Range(extractGeneralKeywords(kwIn.title))
                         \cup Range(extractProperNouns(kwIn.text))
                         \cup Range(extractGeneralKeywords(kwIn.text))
                         \cup Range(extractNumbers(kwIn.text))
        IN  /\ {keywordFreq[k].key : k \in 1..Len(keywordFreq)} = terms
            /\ \A k \in 1..Len(keywordFreq) :
                  /\ keywordFreq[k].num
                  /\ keywordFreq[k].n =
                         WeightedCount(kwIn.text, kwIn.title, keywordFreq[k].key)

-----------------------------------------------------------------------------
(* Claims about several calls on one extractor *)

-----------------------------------------------------------------------------
(* Claims about the AIService *)

\* the credential field of the selected provider
CredentialOf(s) ==
    CASE s.aiProvider = "openai" -> s.openaiApiKey
      [] s.aiProvider = "gemini" -> s.geminiApiKey
      [] s.aiProvider = "claude" -> s.claudeApiKey

\* this step is the synchronous part of a call of op
Starts(op) == pc = "idle" /\ pc' # "idle" /\ call'.op = op

\* C5: a call of expandKnowledge made while the credential of the selected provider is
\* empty ends with an error and has invoked requestUrl zero times.
C5_BlankCredentialFailsBeforeRequest ==
    [][(Starts("expandKnowledge") /\ CredentialOf(settings) = "") =>
           (pc' = "thrown" /\ result'.kind = "error" /\ requests' = <<>>)]_vars

C5_Witness ==
    /\ pc = "thrown"
    /\ call.op = "expandKnowledge"
    /\ settings.aiProvider = "gemini"
    /\ CredentialOf(settings) = ""
    /\ settings.openaiApiKey # ""
    /\ result.kind = "error"
    /\ requests = <<>>

\* C6: webSearch depends on the OpenAI credential only: whatever the selected provider,
\* with an empty openaiApiKey it fails without a request, and with a non-empty one it
\* sends its request, also when the credential of the selected provider is empty.
C6_WebSearchNeedsOpenAIKeyOnly ==
    [][Starts("webSearch") =>
           IF settings.openaiApiKey = ""
           THEN pc' = "thrown" /\ result'.kind = "error" /\ requests' = <<>>
           ELSE /\ pc' = "awaiting"
                /\ Len(requests') = 1
                /\ requests'[1].url = ResponsesUrl
                /\ requests'[1].key = settings.openaiApiKey]_vars

C6_Witness ==
    /\ pc = "awaiting"
    /\ call.op = "webSearch"
    /\ settings.aiProvider = "claude"
    /\ settings.claudeApiKey = ""
    /\ Len(requests) = 1
    /\ requests[1].key = settings.openaiApiKey

\* the endpoint of a route
UrlOf(route) ==
    CASE route = "chat" -> ChatCompletionsUrl
      [] route \in {"responses", "webSearch"} -> ResponsesUrl
      [] route = "gemini" -> GeminiUrl
      [] route = "claude" -> ClaudeUrl

\* C7: a call that passed its credential check has invoked requestUrl exactly once, while
\* it awaits the reply and after it ended, with a response or with an error.
C7_ExactlyOneRequest ==
    (pc \in {"awaiting", "returned", "thrown"} /\ call.route # "none") =>
        /\ Len(requests) = 1
        /\ requests[1].url = UrlOf(call.route)

C7_Witness ==
    /\ pc = "thrown"
    /\ call.route = "chat"
    /\ result.error \in TransportErrors
    /\ Len(requests) = 1

\* C8: a returned AIResponse has totalTokens = inputTokens + outputTokens.
C8_TotalIsSumOfInputAndOutput ==
    (pc = "returned" /\ result.kind = "response") =>
        result.totalTokens = result.inputTokens + result.outputTokens

\* the provider of a route
ProviderOf(route) ==
    IF route \in {"chat", "responses", "webSearch"} THEN "openai" ELSE route

\* the model id the settings hold now for a route
ModelNow(route) ==
    CASE route \in {"chat", "responses"} ->
            (IF settings.openaiModel = "" THEN "gpt-4o-mini" ELSE settings.openaiModel)
      [] route = "webSearch" -> settings.openaiWebSearchModel
      [] route = "gemini" -> settings.geminiModel
      [] route = "claude" -> settings.claudeModel

\* the cost of inputTokens and outputTokens at the price of (provider, model), 0 without one
CostAt(provider, model, inputTokens, outputTokens) ==
    LET pricing == PRICING_PER_MILLION_TOKENS[provider]
    IN  IF model \in DOMAIN pricing
        THEN inputTokens * pricing[model].input + outputTokens * pricing[model].output
        ELSE 0

\* C9: the estimatedCost of a returned AIResponse is inputTokens * input price +
\* outputTokens * output price (per million tokens) of the provider and model of the call,
\* and 0 when the table has no price for them; it is never negative; gpt-4o with 1000 input
\* and 500 output tokens costs 0.0075 dollar. The model of the call is the model id sent
\* in the request or the one the settings hold for the route when the call returns: the
\* same id unless the settings changed while the request was pending.
C9_CostFromPricingTable ==
    (pc = "returned" /\ result.kind = "response") =>
        /\ result.estimatedCost >= 0
        /\ \E model \in {requests[1].model, ModelNow(call.route)} :
              result.estimatedCost =
                  CostAt(ProviderOf(call.route), model, result.inputTokens, result.outputTokens)
        /\ (call.route = "chat" /\ requests[1].model = "gpt-4o"
               /\ result.inputTokens = 1000 /\ result.outputTokens = 500) =>
              result.estimatedCost = 7500000

C9_Witness ==
    /\ pc = "returned"
    /\ result.kind = "response"
    /\ call.route = "chat"
    /\ call.model = "gpt-4o"
    /\ result.inputTokens = 1000
    /\ result.outputTokens = 500
    /\ result.estimatedCost = 7500000

\* the awaited request has settled and the call has ended
Settled(how) ==
    /\ pc \in {"returned", "thrown"}
    /\ upstream.settled = how

\* C12: when the upstream response lacks the reply text (no output array, no message or
\* output_text item, no choices, candidates or content) the call fails, on every route;
\* it returns no AIResponse.
C12_MissingTextFails ==
    (Settled("resolved") /\ ~upstream.json.body.hasText) =>
        /\ pc = "thrown"
        /\ result.kind = "error"

\* C13: when the upstream response carries the reply text but no usage object the call
\* returns an AIResponse whose token counts and estimated cost are zero, on every route.
C13_MissingUsageIsZero ==
    (Settled("resolved") /\ upstream.json.body.hasText /\ ~upstream.json.usage.hasUsage) =>
        /\ pc = "returned"
        /\ result.kind = "response"
        /\ result.inputTokens = 0
        /\ result.outputTokens = 0
        /\ result.totalTokens = 0
        /\ result.estimatedCost = 0

\* C14: when requestUrl raises an error the call ends by throwing that same error, on
\* every route; it returns no AIResponse.
C14_TransportErrorRethrown ==
    upstream.settled = "rejected" =>
        /\ pc = "thrown"
        /\ result = Error(upstream.error)
        /\ result.kind # "response"

\* a web search and a Claude call are the routes without a try block; here a web search
\* ended with the error of the transport
C14_Witness ==
    /\ Settled("rejected")
    /\ call.op = "webSearch"
    /\ call.route = "webSearch"
    /\ upstream.error = "net::ERR_FAILED"
    /\ result.error = "net::ERR_FAILED"

\* C18: a call started after updateSettings (which saveSettings calls on every change made
\* in the settings tab) uses the values the settings hold then: the provider, its
\* credential, the model id and the system prompt for expandKnowledge, the OpenAI
\* credential and the web-search model id for webSearch; it uses no replaced value.
C18_CallsUseUpdatedSettings ==
    [][(pc = "idle" /\ pc' # "idle") =>
           /\ settings' = settings
           /\ call'.op = "expandKnowledge" =>
                  IF CredentialOf(settings) = ""
                  THEN requests' = <<>>
                  ELSE /\ Len(requests') = 1
                       /\ ProviderOf(call'.route) = settings.aiProvider
                       /\ requests'[1].key = CredentialOf(settings)
                       /\ requests'[1].model = ModelNow(call'.route)
                       /\ call'.model = ModelNow(call'.route)
                       /\ startsWith(requests'[1].prompt, settings.systemPrompt)
           /\ call'.op = "webSearch" =>
                  IF settings.openaiApiKey = ""
                  THEN requests' = <<>>
                  ELSE /\ Len(requests') = 1
                       /\ requests'[1].key = settings.openaiApiKey
                       /\ requests'[1].model = settings.openaiWebSearchModel]_vars

\* the system prompt was edited (it is not the loaded one) and a Claude call that started
\* afterwards has sent the edited prompt with the credential and model of the settings
C18_Witness ==
    /\ pc = "awaiting"
    /\ call.op = "expandKnowledge"
    /\ call.route = "claude"
    /\ settings.systemPrompt = <<"a">>
    /\ startsWith(requests[1].prompt, <<"a">>)
    /\ requests[1].key = settings.claudeApiKey
    /\ requests[1].model = settings.claudeModel

\* the characters of w begin with those of p
HasPrefix(w, p) == Len(p) <= Len(w) /\ \A k \in 1..Len(p) : w[k] = p[k]

\* the model id is of a family served by the responses endpoint
ResponsesFamily(model) ==
    \/ HasPrefix(Spelling[model], <<"g","p","t","-","5">>)
    \/ HasPrefix(Spelling[model], <<"g","p","t","-","4",".","1">>)
    \/ HasPrefix(Spelling[model], <<"o","3">>)
    \/ HasPrefix(Spelling[model], <<"o","4">>)

\* openaiModel, or 'gpt-4o-mini' when it is empty
EffectiveModel(s) == IF s.openaiModel = "" THEN "gpt-4o-mini" ELSE s.openaiModel

\* C21: with the provider openai, expandKnowledge sends its one request to the responses
\* endpoint when the effective model id (openaiModel, 'gpt-4o-mini' when empty) starts
\* with 'gpt-5', 'gpt-4.1', 'o3' or 'o4' and to the chat-completion endpoint otherwise,
\* and the cost of its response is looked up for that model id; webSearch sends to the
\* responses endpoint with the web_search_preview tool whatever its model id is.
C21_EndpointByModelFamily ==
    [][/\ (Starts("expandKnowledge") /\ settings.aiProvider = "openai"
               /\ settings.openaiApiKey # "") =>
              /\ Len(requests') = 1
              /\ requests'[1].model = EffectiveModel(settings)
              /\ requests'[1].tools = {}
              /\ requests'[1].url = (IF ResponsesFamily(EffectiveModel(settings))
                                     THEN ResponsesUrl ELSE ChatCompletionsUrl)
       /\ (pc = "awaiting" /\ pc' = "returned" /\ call.route \in {"chat", "responses"}) =>
              /\ requests' = requests
              /\ result'.estimatedCost =
                     CostAt("openai", requests[1].model,
                            result'.inputTokens, result'.outputTokens)
       /\ (Starts("webSearch") /\ settings.openaiApiKey # "") =>
              /\ Len(requests') = 1
              /\ requests'[1].url = ResponsesUrl
              /\ requests'[1].tools = {"web_search_preview"}
              /\ requests'[1].model = settings.openaiWebSearchModel]_vars

\* an 'o4-mini' call went to the responses endpoint, the dropdown was set to 'gpt-4o'
\* while it was in flight, and its response is priced as 'o4-mini'
C21_Witness ==
    /\ pc = "returned"
    /\ call.route = "responses"
    /\ requests[1].url = ResponsesUrl
    /\ requests[1].model = "o4-mini"
    /\ settings.openaiModel = "gpt-4o"
    /\ result.inputTokens = 1000 /\ result.outputTokens = 500
    /\ result.estimatedCost = 1000 * 1100 + 500 * 4400

\* C24: on every route the title and content of the response a call returns are those of
\* parseResponse(stripMarkdownCodeBlock(text)) for the text its adapter read from the
\* upstream response, and its token counts and estimated cost are those of the adapter.
C24_PostProcessedOnEveryRoute ==
    pc = "returned" =>
        LET adapted == adapterReturn(call, upstream.json, settings)
            p == parseResponse(stripMarkdownCodeBlock(adapted.content))
        IN  /\ call.route \in {"chat", "responses", "webSearch", "gemini", "claude"}
            /\ upstream.json.body.hasText => adapted.content = upstream.json.body.text
            /\ result.title = p.title
            /\ result.content = p.content
            /\ result.inputTokens = adapted.inputTokens
            /\ result.outputTokens = adapted.outputTokens
            /\ result.totalTokens = adapted.totalTokens
            /\ result.estimatedCost = adapted.estimatedCost
            /\ upstream.json.body.text = FencedReply =>
                   result.title = <<"a">> /\ result.content = <<"b">>

\* a Gemini call returned the title and the body of a fenced reply, with the token counts
\* of the upstream
C24_Witness ==
    /\ pc = "returned"
    /\ call.route = "gemini"
    /\ upstream.json.body.text = FencedReply
    /\ result.title = <<"a">>
    /\ result.content = <<"b">>
    /\ result.inputTokens = 1000
    /\ result.outputTokens = 500
    /\ result.totalTokens = 1600

\* C25: the estimatedCost of a returned response is computed with the pricing of the model
\* id that was sent in the request of the call, on every route, also when the model id of
\* the settings was changed while the request was in flight.
C25_CostOfTheModelSent ==
    (pc = "returned" /\ result.kind = "response") =>
        /\ Len(requests) = 1
        /\ result.estimatedCost =
               CostAt(ProviderOf(call.route), requests[1].model,
                      result.inputTokens, result.outputTokens)

-----------------------------------------------------------------------------
(* Claims about parseResponse *)

\* the first line of the trimmed raw text
FirstLine ==
    LET t == trim(raw)
        feeds == {i \in 1..Len(t) : t[i] = "\n"}
    IN  IF feeds = {} THEN t ELSE SubSeq(t, 1, Min(feeds) - 1)

\* the trimmed raw text after its first line
AfterFirstLine ==
    LET t == trim(raw)
        feeds == {i \in 1..Len(t) : t[i] = "\n"}
    IN  IF feeds = {} THEN <<>> ELSE SubSeq(t, Min(feeds) + 1, Len(t))

\* s without the blank lines it begins with
BlankLinesSkipped(s) ==
    LET ends == {k \in 1..Len(s) : /\ \A j \in 1..k : s[j] \in WhiteSpace
                                    /\ (s[k] = "\n" \/ k = Len(s))}
    IN  IF ends = {} THEN s ELSE SubSeq(s, Max(ends) + 1, Len(s))

Marked == startsWith(FirstLine, TitleMarker) \/ startsWith(FirstLine, TitleMarkerSpaced)

\* the first line after its marker
AfterMarker ==
    IF startsWith(FirstLine, TitleMarker)
    THEN SubSeq(FirstLine, Len(TitleMarker) + 1, Len(FirstLine))
    ELSE SubSeq(FirstLine, Len(TitleMarkerSpaced) + 1, Len(FirstLine))

\* C10 as stated: with a marked first line the title is the trimmed rest of that line and
\* the content is the text after it with the blank lines that follow skipped; otherwise the
\* title is empty and the content is the trimmed text; the content never begins with the
\* title line.
C10_ParseSplitsTitleFromBody ==
    parsed # NotParsed =>
        IF Marked
        THEN /\ parsed.title = trim(AfterMarker)
             /\ parsed.content = BlankLinesSkipped(AfterFirstLine)
             /\ ~startsWith(parsed.content, FirstLine)
        ELSE /\ parsed.title = <<>>
             /\ parsed.content = trim(raw)

\* C10 amended: with a marked first line the title is the trimmed rest of that line and the
\* content is the text after it, blank lines skipped, trimmed; otherwise the title is
\* empty and the content is the trimmed text. The content begins with the title line
\* only when the text after the title line begins with a copy of it.
C10_ParseSplitsTitleFromTrimmedBody ==
    parsed # NotParsed =>
        IF Marked
        THEN /\ parsed.title = trim(AfterMarker)
             /\ parsed.content = trim(BlankLinesSkipped(AfterFirstLine))
             /\ startsWith(parsed.content, FirstLine) =>
                    startsWith(trim(AfterFirstLine), FirstLine)
        ELSE /\ parsed.title = <<>>
             /\ parsed.content = trim(raw)

C10_Witness ==
    /\ parsed # NotParsed
    /\ Marked
    /\ parsed.title = <<"a">>
    /\ parsed.content = <<"a">>
    /\ BlankLinesSkipped(AfterFirstLine) # AfterFirstLine


-----------------------------------------------------------------------------
(* Claims about extractNumbers *)

AllDigits(w) == \A k \in 1..Len(w) : w[k] \in Digit

\* digits, optionally jo, eok or man, then won
IsMoneyAmount(w) ==
    /\ Len(w) >= 2
    /\ w[Len(w)] = "ko:won"
    /\ \/ AllDigits(SubSeq(w, 1, Len(w) - 1))
       \/ /\ Len(w) >= 3
          /\ w[Len(w) - 1] \in MoneyUnit
          /\ AllDigits(SubSeq(w, 1, Len(w) - 2))

\* four digits followed by nyeon
IsYear(w) == Len(w) = 5 /\ AllDigits(SubSeq(w, 1, 4)) /\ w[5] = "ko:nyeon"

\* one or two digits, wol, one or two digits, il
IsDayOfMonth(w) ==
    \E m \in 1..2 : \E n \in 1..2 :
        /\ Len(w) = m + n + 2
        /\ AllDigits(SubSeq(w, 1, m))
        /\ w[m + 1] = "ko:wol"
        /\ AllDigits(SubSeq(w, m + 2, m + n + 1))
        /\ w[m + n + 2] = "ko:il"

\* digits, any number of groups of a comma and three digits, then myeong, geon, hoe or gae
IsCountedQuantity(w) ==
    /\ Len(w) >= 2
    /\ w[Len(w)] \in CountUnit
    /\ \E n \in 1..(Len(w) - 1) :
          /\ (Len(w) - 1 - n) % 4 = 0
          /\ AllDigits(SubSeq(w, 1, n))
          /\ \A g \in 0..((Len(w) - 1 - n) \div 4 - 1) :
                /\ w[n + 4 * g + 1] = ","
                /\ AllDigits(SubSeq(w, n + 4 * g + 2, n + 4 * g + 4))

\* the places <<first, last>> of the substrings of s of each kind
MoneyAmountsIn(s) ==
    {p \in (1..Len(s)) \X (1..Len(s)) : p[1] <= p[2] /\ IsMoneyAmount(SubSeq(s, p[1], p[2]))}

DatesIn(s) ==
    {p \in (1..Len(s)) \X (1..Len(s)) :
        /\ p[1] <= p[2]
        /\ IsYear(SubSeq(s, p[1], p[2])) \/ IsDayOfMonth(SubSeq(s, p[1], p[2]))}

CountedQuantitiesIn(s) ==
    {p \in (1..Len(s)) \X (1..Len(s)) :
        p[1] <= p[2] /\ IsCountedQuantity(SubSeq(s, p[1], p[2]))}

\* of the substrings at the places ps, the longest one that ends at each position where
\* one ends, in the order of the text
LongestInOrder(s, ps) ==
    LET lasts == {p[2] : p \in ps}
        nthLast(n) == CHOOSE e \in lasts : Cardinality({x \in lasts : x < e}) = n - 1
        firstOf(e) == Min({p[1] : p \in {q \in ps : q[2] = e}})
    IN  [n \in 1..Cardinality(lasts) |-> SubSeq(s, firstOf(nthLast(n)), nthLast(n))]

\* C17: extractNumbers returns each currency amount (digits, optional jo / eok / man, won),
\* then each four-digit year followed by nyeon and each day of a month (one or two
\* digits, wol, one or two digits, il), then each counted quantity (digits with optional
\* thousands groups, then myeong / geon / hoe / gae), each list in the order of the text;
\* for the example text it returns '2025nyeon', '1wol15il' and '1,000myeong'.
C17_NumbersExtracted ==
    fnPc = "done" =>
        /\ fnOut = LongestInOrder(fnIn, MoneyAmountsIn(fnIn))
                       \o LongestInOrder(fnIn, DatesIn(fnIn))
                       \o LongestInOrder(fnIn, CountedQuantitiesIn(fnIn))
        /\ fnIn = NumbersExample =>
               fnOut = << <<"2","0","2","5","ko:nyeon">>,
                          <<"1","ko:wol","1","5","ko:il">>,
                          <<"1",",","0","0","0","ko:myeong">> >>

\* the numeric terms of the example text have been extracted
C17_Witness ==
    /\ fnPc = "done"
    /\ fnIn = NumbersExample
    /\ Len(fnOut) = 3
    /\ fnOut[2] = <<"1","ko:wol","1","5","ko:il">>

-----------------------------------------------------------------------------
(* Claims about extractGeneralKeywords *)

\* w is written with Latin letters only
IsEnglishWord(w) == w # <<>> /\ \A k \in 1..Len(w) : w[k] \in Letter

\* w stands in s, character for character
OccursIn(w, s) == \E i \in 1..(Len(s) - Len(w) + 1) : SubSeq(s, i, i + Len(w) - 1) = w

\* C20: every English word that extractGeneralKeywords returns has at least three letters,
\* begins with an uppercase letter, is no English stop word whatever its case, and is
\* returned in the case it has in the text.
C20_EnglishKeywordsThreeLetters ==
    fnPc = "done" =>
        \A k \in 1..Len(fnOut) :
            IsEnglishWord(fnOut[k]) =>
                /\ Len(fnOut[k]) >= 3
                /\ fnOut[k][1] \in Upper
                /\ toLowerCase(fnOut[k]) \notin stopwordsEn
                /\ OccursIn(fnOut[k], fnIn)

-----------------------------------------------------------------------------
(* Claims about stripMarkdownCodeBlock *)

\* t is s without its leading and trailing white space
IsTrimOf(t, s) ==
    \E i \in 1..(Len(s) + 1) : \E j \in 0..Len(s) :
        /\ i <= j + 1
        /\ t = SubSeq(s, i, j)
        /\ \A k \in 1..(i - 1) : s[k] \in WhiteSpace
        /\ \A k \in (j + 1)..Len(s) : s[k] \in WhiteSpace
        /\ t # <<>> => t[1] \notin WhiteSpace /\ t[Len(t)] \notin WhiteSpace

\* s begins with three backquotes once its leading white space is dropped
OpensWithFence(s) ==
    \E i \in 1..Len(s) :
        /\ \A k \in 1..(i - 1) : s[k] \in WhiteSpace
        /\ i + 2 <= Len(s)
        /\ \A k \in i..(i + 2) : s[k] = "BQ"

\* s ends with three backquotes once its trailing white space is dropped
ClosesWithFence(s) ==
    \E j \in 1..Len(s) :
        /\ \A k \in (j + 1)..Len(s) : s[k] \in WhiteSpace
        /\ j - 2 >= 1
        /\ \A k \in (j - 2)..j : s[k] = "BQ"

\* C11: a text whose trimmed form neither starts nor ends with a fence of
\* three backquotes is returned by stripMarkdownCodeBlock unchanged, apart
\* from the removal of its leading and trailing white space.
C11_UnfencedTextOnlyTrimmed ==
    (fnPc = "done" /\ ~OpensWithFence(fnIn) /\ ~ClosesWithFence(fnIn))
        => IsTrimOf(fnOut, fnIn)

\* an unfenced text with white space before it and a fence in its middle has
\* been stripped
C11_Witness ==
    /\ fnPc = "done"
    /\ ~OpensWithFence(fnIn) /\ ~ClosesWithFence(fnIn)
    /\ fnIn # <<>> /\ fnIn[1] \in WhiteSpace
    /\ \E i \in 2..(Len(fnIn) - 3) : SubSeq(fnIn, i, i + 2) = Fence
    /\ fnOut # fnIn
    /\ Len(fnOut) = Len(fnIn) - 1

\* s starts with a fence (which the openers of 'md' and 'markdown' do too) or ends with one
Fenced(s) == startsWith(s, Fence) \/ endsWith(s, Fence)

\* C22: stripMarkdownCodeBlock is idempotent on every input: the result of stripping
\* neither starts with an opener nor ends with a closer, and stripping it again returns it.
C22_StripIdempotent ==
    fnPc = "again" =>
        /\ ~Fenced(fnOut[1])
        /\ fnOut[2] = fnOut[1]

\* C22, amended: one application removes one opener and one closer, so stripping a
\* result again returns it exactly when the result is not fenced itself; that is the
\* case for every content with at most one opener and one closer around its text.
C22_StripIdempotentUnlessNested ==
    fnPc = "again" =>
        /\ fnOut[2] = fnOut[1] <=> ~Fenced(fnOut[1])
        /\ Fenced(fnOut[1]) => Len(fnOut[2]) < Len(fnOut[1])
        /\ (~Fenced(fnOut[1]) /\ fnOut[1] # <<>>) =>
               fnOut[1][1] \notin WhiteSpace /\ fnOut[1][Len(fnOut[1])] \notin WhiteSpace

\* a content between a 'md' opener and a closer was stripped to its text, and the second
\* application returned that text
C22_Witness ==
    /\ fnPc = "again"
    /\ startsWith(fnIn, FenceMd)
    /\ endsWith(fnIn, Fence)
    /\ Len(fnIn) > Len(FenceMd) + Len(Fence)
    /\ fnOut[1] # <<>>
    /\ ~Fenced(fnOut[1])
    /\ fnOut[2] = fnOut[1]

-----------------------------------------------------------------------------
(* Claims about buildPrompt and buildWebSearchPrompt *)

\* s holds nothing but white space
IsBlank(s) == \A k \in 1..Len(s) : s[k] \in WhiteSpace

\* the prompt holds the heading of the user's question followed by the question
HasQuestionSection(prompt, userQuestion) ==
    OccursIn(<<"P:question">>, prompt)
        /\ OccursIn(<<"P:question", "\"">> \o userQuestion \o <<"\"">>, prompt)

\* the text occurs in one of the arguments of the call
OccursInArguments(text, in) ==
    \/ OccursIn(text, in.selectedText)
    \/ OccursIn(text, in.context)
    \/ OccursIn(text, in.userQuestion)

\* C23: the prompt of expandKnowledge and that of webSearch hold the section of the
\* user's question exactly when the question is not blank; the prompt of expandKnowledge
\* begins with the system prompt of the settings; the web-search prompt does not hold the
\* system prompt (a system prompt that is some text and is not quoted by the arguments of
\* the call), it begins with its own instructions.
C23_PromptSections ==
    fnPc = "done" =>
        /\ HasQuestionSection(fnOut.prompt, fnIn.userQuestion) <=> ~IsBlank(fnIn.userQuestion)
        /\ OccursIn(<<"P:question">>, fnOut.prompt) <=> ~IsBlank(fnIn.userQuestion)
        /\ fnOut.method = "buildPrompt" => HasPrefix(fnOut.prompt, fnIn.systemPrompt)
        /\ fnOut.method = "buildWebSearchPrompt" =>
               /\ HasPrefix(fnOut.prompt, <<"P:webSearch">>)
               /\ (fnIn.systemPrompt # <<>> /\ ~OccursInArguments(fnIn.systemPrompt, fnIn)) =>
                      ~OccursIn(fnIn.systemPrompt, fnOut.prompt)

\* a web-search prompt built under the default system prompt for a question with blanks
\* around it: it holds the question section and not the system prompt
C23_Witness ==
    /\ fnPc = "done"
    /\ fnOut.method = "buildWebSearchPrompt"
    /\ fnIn.systemPrompt = DefaultSystemPrompt
    /\ fnIn.userQuestion = <<" ", "q">>
    /\ HasQuestionSection(fnOut.prompt, fnIn.userQuestion)
    /\ ~OccursIn(fnIn.systemPrompt, fnOut.prompt)
    /\ OccursIn(<<"P:lengthAndHeadings">>, fnOut.prompt)

-----------------------------------------------------------------------------
(* Claims about the expansions started from the editor *)

\* the offset of an editor position in a content: the start of its line plus ch; -1 when
\* the content has no such line
OffsetOf(content, pos) ==
    LET feeds == {i \in 1..Len(content) : content[i] = "\n"}
        before == {i \in feeds : Cardinality({j \in feeds : j < i}) = pos.line - 1}
    IN  IF pos.line > Cardinality(feeds) THEN -1
        ELSE IF pos.line = 0 THEN pos.ch
        ELSE (CHOOSE i \in before : TRUE) + pos.ch

\* the characters of the content at the captured range [from, to) are the captured text
StillSelected(content, ctx) ==
    LET f == OffsetOf(content, ctx.from)
        t == OffsetOf(content, ctx.to)
    IN  /\ 0 <= f /\ f <= t /\ t <= Len(content)
        /\ SubSeq(content, f + 1, t) = ctx.selectedText

\* replaceTextAtContext has gone past its vault.read
PastRead(o) == o.writes # <<>> \/ o.threwAt = "replace"

\* C26: replaceTextAtContext modifies the source file in one of two ways: when the
\* characters of the file at the captured range are still the captured text, it writes
\* the file with that range replaced by the link; otherwise it writes the file followed by
\* two line feeds and the link. All other characters are kept.
C26_ReplacedOrAppended ==
    \A op \in DOMAIN ops :
        PastRead(ops[op]) =>
            LET o == ops[op]
                f == OffsetOf(o.read, o.ctx.from)
                t == OffsetOf(o.read, o.ctx.to)
            IN  /\ Len(o.writes) = 1
                /\ o.writes[1] =
                       IF StillSelected(o.read, o.ctx)
                       THEN SubSeq(o.read, 1, f) \o o.wikiLink
                                \o SubSeq(o.read, t + 1, Len(o.read))
                       ELSE o.read \o <<"\n", "\n">> \o o.wikiLink

\* C27: when two expansions that were in flight at the same time have both written the
\* source file through replaceTextAtContext and have finished, the file holds the wiki
\* links of both.
C27_BothLinksKept ==
    (/\ Len(ops) = 2
     /\ \A op \in DOMAIN ops : ops[op].pc = "done" /\ ops[op].writes # <<>>)
        => \A op \in DOMAIN ops : OccursIn(ops[op].wikiLink, file.content)


\* the Notice shown last by an expansion
LastNotice(o) == o.notices[Len(o.notices)]

\* C28: when the AI call of an expansion fails, no note is created, vault.modify is not
\* called on the source file and the error is shown; when vault.create fails, vault.modify
\* is not called on the source file and the error is shown. vault.modify is called on the
\* source file only by an expansion whose note has been created.
C28_LinkOnlyAfterNote ==
    \A op \in DOMAIN ops :
        LET o == ops[op]
        IN  /\ (o.pc = "failed" /\ o.threwAt = "ai") =>
                   /\ notes = {}
                   /\ o.writes = <<>>
                   /\ LastNotice(o) = "error"
            /\ (o.pc = "failed" /\ o.threwAt = "create") =>
                   /\ o.note \notin notes
                   /\ o.writes = <<>>
                   /\ LastNotice(o) = "error"
            /\ o.writes # <<>> => o.note \in notes
            /\ o.writes = <<>> => "success" \notin Range(o.notices) \/ ~file.exists

\* vault.create failed after the user had changed the source note: the error is shown and
\* the source note is as the user left it
C28_Witness ==
    /\ ops[1].pc = "failed"
    /\ ops[1].threwAt = "create"
    /\ ops[1].ctx.selectedText = <<"a">>
    /\ ops[1].notices = <<"wait", "error">>
    /\ ops[1].writes = <<>>
    /\ notes = {}
    /\ file = [exists |-> TRUE, content |-> <<"\n", "a">>]

\* C29: when an expansion has created its note and finishes while the source file is
\* still at its captured path, the source file holds the wiki link to the note, whatever
\* edits were made to it while the request was in flight.
C29_LinkInSourceWhenFinished ==
    \A op \in DOMAIN ops :
        (/\ ops[op].pc \in {"done", "failed"}
         /\ ops[op].note \in notes
         /\ file.exists)
            => OccursIn(ops[op].wikiLink, file.content)


-----------------------------------------------------------------------------
(* Claims about the loop of extractProperNouns *)

\* C30: the exec loop of the company-name pattern ends for every text: each iteration
\* matches at least one character at or after lastIndex and moves lastIndex forward, so
\* the loop has made at most one iteration per character of the text when exec returns
\* null; it collects the company names of extractProperNouns.
C30_CompanyLoopTerminates ==
    /\ [](fnPc \in {"call", "done"} =>
             /\ fnOut.iterations <= Len(fnIn)
             /\ fnOut.lastIndex <= Len(fnIn)
             /\ fnPc = "done" => fnOut.properNouns = companyLoop(fnIn, 1))
    /\ [][fnPc' = "call" =>
             /\ companyExec(fnIn, fnOut.lastIndex).index >= fnOut.lastIndex
             /\ fnOut'.lastIndex > companyExec(fnIn, fnOut.lastIndex).index
             /\ fnOut'.lastIndex > fnOut.lastIndex
             /\ fnOut'.iterations = fnOut.iterations + 1]_vars

\* the loop has ended after two iterations on the text of the company mark, a syllable, a
\* comma and 'AB'
C30_Witness ==
    /\ fnPc = "done"
    /\ fnIn = <<CompanyMark, "ko:hoe", ",">> \o TokAB
    /\ fnOut.iterations = 2
    /\ fnOut.properNouns = <<TokAB>>
====
